---------------------------- MODULE Spec2Model ----------------------------
(***************************************************************************)
(* Offline-first synchronisation engine of the couples spend tracker:      *)
(* the last-write-wins merge (server.js mergeRecords, Database.mergeRecords)*)
(* the server's sync handlers, the client's IndexedDB replica and the      *)
(* SyncService round that drives them.                                     *)
(***************************************************************************)
EXTENDS Integers, Sequences, FiniteSets, TLC

(***************************************************************************)
(* Bounds of the model.                                                    *)
(***************************************************************************)
\* instants are 1..MaxTime; the stamp 0 is a string Date cannot parse
MaxTime == 2
\* longest collection handed to the merge in SpecMerge
MaxLen == 2
\* total number of records over the three collections handed to the merge
MaxTotal == 3
\* local mutations (save, delete) over all clients
MaxMutations == 1
\* rounds started by each client
MaxRounds == 2
\* calls of sync() that return at once
MaxIgnored == 1
\* online and offline events over all clients
MaxEvents == 1
MaxRequests == 2
MaxRuns == 3
MaxReloads == 1
\* rounds started over both clients in SpecTwo
ConvRounds == 3

(***************************************************************************)
(* Records.  Every synchronised entity carries id, updatedAt, deletedAt    *)
(* and a payload; the merge reads id and updatedAt only.                   *)
(***************************************************************************)
\* deletedAt: null, or the instant of the deletion
NULL == 0
NaN == -1

IdPool == <<"cat-1", "u-1", "u-2", "u-3">>
Ids == {"cat-1", "u-1"}
Payloads == {"p", "q"}
Instants == 1..MaxTime
\* an updatedAt string: 0 stands for a missing or unparseable one
Stamps == 0..MaxTime

Record == [id : Ids, updatedAt : Stamps, deletedAt : {NULL} \cup Instants,
           data : Payloads]

\* what Map.get answers for an absent key
Undefined == [id |-> "undefined", updatedAt |-> 0, deletedAt |-> NULL,
              data |-> "undefined"]

\* the position of an id in key order (IndexedDB returns records by key)
IdRank(id) == CHOOSE i \in 1..Len(IdPool) : IdPool[i] = id

\* new Date(updatedAt).getTime(): the instant, or NaN when Date cannot parse
getTime(updatedAt) == IF updatedAt \in Instants THEN updatedAt ELSE NaN

\* a > b on JavaScript numbers: false as soon as one side is NaN
jsGreater(a, b) == a # NaN /\ b # NaN /\ a > b

\* !record.deletedAt : null is falsy, every timestamp string is truthy
isLive(r) == r.deletedAt = NULL

(***************************************************************************)
(* A JavaScript Map keyed by id, in insertion order: a sequence of records *)
(* with pairwise distinct ids.  set() on a present key keeps its position. *)
(***************************************************************************)
mapHas(m, id) == \E i \in 1..Len(m) : m[i].id = id

mapGet(m, id) ==
    IF mapHas(m, id)
    THEN m[CHOOSE i \in 1..Len(m) : m[i].id = id]
    ELSE Undefined

mapSet(m, r) ==
    IF mapHas(m, r.id)
    THEN [i \in 1..Len(m) |-> IF m[i].id = r.id THEN r ELSE m[i]]
    ELSE Append(m, r)

\* for (const record of records) merged.set(record.id, record)
RECURSIVE indexAll(_, _)
indexAll(m, records) ==
    IF records = <<>> THEN m
    ELSE indexAll(mapSet(m, Head(records)), Tail(records))

(***************************************************************************)
(* server.js mergeRecords(serverRecords, clientRecords)                    *)
(***************************************************************************)
\* mutants of the loop body: >= for >, no insertion of an unseen id,
\* and a baseline that is never replaced
serverMergeOneGte(merged, clientRecord) ==
    IF ~mapHas(merged, clientRecord.id)
    THEN mapSet(merged, clientRecord)
    ELSE IF getTime(clientRecord.updatedAt)
              >= getTime(mapGet(merged, clientRecord.id).updatedAt)
         THEN mapSet(merged, clientRecord)
         ELSE merged

serverMergeOneNoInsert(merged, clientRecord) ==
    IF ~mapHas(merged, clientRecord.id)
    THEN merged
    ELSE IF jsGreater(getTime(clientRecord.updatedAt),
                      getTime(mapGet(merged, clientRecord.id).updatedAt))
         THEN mapSet(merged, clientRecord)
         ELSE merged

serverMergeOneKeep(merged, clientRecord) ==
    IF ~mapHas(merged, clientRecord.id)
    THEN mapSet(merged, clientRecord)
    ELSE merged

\* one iteration of the loop over clientRecords
serverMergeOne(merged, clientRecord) ==
    LET serverRecord == mapGet(merged, clientRecord.id)
    IN  IF serverRecord = Undefined
        THEN mapSet(merged, clientRecord)
        ELSE IF jsGreater(getTime(clientRecord.updatedAt),
                          getTime(serverRecord.updatedAt))
             THEN mapSet(merged, clientRecord)
             ELSE merged

RECURSIVE serverMergeLoop(_, _)
serverMergeLoop(merged, clientRecords) ==
    IF clientRecords = <<>> THEN merged
    ELSE serverMergeLoop(serverMergeOne(merged, Head(clientRecords)),
                         Tail(clientRecords))

\* mutant: the merge hands back the live view instead of the full list
mergeRecordsLiveOnly(serverRecords, clientRecords) ==
    SelectSeq(serverMergeLoop(indexAll(<<>>, serverRecords), clientRecords),
              isLive)

mergeRecords(serverRecords, clientRecords) ==
    serverMergeLoop(indexAll(<<>>, serverRecords), clientRecords)

(***************************************************************************)
(* Database.mergeRecords(localRecords, serverRecords) of the client        *)
(***************************************************************************)
\* mutant: on the client a tie goes to the server's record
dbMergeOneGte(merged, serverRecord) ==
    LET localRecord == mapGet(merged, serverRecord.id)
    IN  IF localRecord = Undefined
        THEN mapSet(merged, serverRecord)
        ELSE IF getTime(serverRecord.updatedAt)
                  >= getTime(localRecord.updatedAt)
             THEN mapSet(merged, serverRecord)
             ELSE merged

\* one iteration of the loop over serverRecords
dbMergeOne(merged, serverRecord) ==
    LET localRecord == mapGet(merged, serverRecord.id)
    IN  IF localRecord = Undefined
        THEN mapSet(merged, serverRecord)
        ELSE IF jsGreater(getTime(serverRecord.updatedAt),
                          getTime(localRecord.updatedAt))
             THEN mapSet(merged, serverRecord)
             ELSE merged

RECURSIVE dbMergeLoop(_, _)
dbMergeLoop(merged, serverRecords) ==
    IF serverRecords = <<>> THEN merged
    ELSE dbMergeLoop(dbMergeOne(merged, Head(serverRecords)),
                     Tail(serverRecords))

dbMergeRecords(localRecords, serverRecords) ==
    dbMergeLoop(indexAll(<<>>, localRecords), serverRecords)

(***************************************************************************)
(* Helpers over collections.                                               *)
(***************************************************************************)
IdsOf(coll) == {coll[i].id : i \in 1..Len(coll)}
Range(coll) == {coll[i] : i \in 1..Len(coll)}
UniqueIds(coll) ==
    \A i, j \in 1..Len(coll) : coll[i].id = coll[j].id => i = j
\* the record a collection holds for an id once indexed by id (last wins)
Held(coll, id) == mapGet(indexAll(<<>>, coll), id)
SeqsUpTo(S, n) == UNION {[1..k -> S] : k \in 0..n}


(***************************************************************************)
(* The replicas: the server's JSON files and each client's IndexedDB.      *)
(***************************************************************************)
Clients == {"A", "B"}
\* the kinds, in the order a round exchanges them (sync.js sync())
Kinds == <<"transactions", "categories", "recurring">>
KindSet == {Kinds[i] : i \in 1..Len(Kinds)}
\* the type tag the journal gives a mutation of each kind
JournalType == [transactions |-> "transaction", categories |-> "category",
                recurring |-> "recurring"]

\* server.js defaultCategories: cat-1 .. cat-8, of which the model's id space
\* holds cat-1; all are stamped with the instant the server first started
defaultCategories ==
    <<[id |-> "cat-1", updatedAt |-> 1, deletedAt |-> NULL, data |-> "p"]>>

\* an object store keyed by id: Undefined marks an absent key
EmptyStore == [id \in Ids |-> Undefined]

\* Database.getAll: every record of the store, in key order
RECURSIVE getAllFrom(_, _)
getAllFrom(st, i) ==
    IF i > Len(IdPool) THEN <<>>
    ELSE (IF IdPool[i] \in Ids /\ st[IdPool[i]] # Undefined
          THEN <<st[IdPool[i]]>> ELSE <<>>) \o getAllFrom(st, i + 1)
getAll(st) == getAllFrom(st, 1)

\* Database.put: upsert by key
put(st, item) == [st EXCEPT ![item.id] = item]

\* Database.bulkPut: items.forEach(item => store.put(item))
RECURSIVE bulkPut(_, _)
bulkPut(st, items) ==
    IF items = <<>> THEN st ELSE bulkPut(put(st, Head(items)), Tail(items))

\* all.filter(t => !t.deletedAt)
liveOnly(records) == SelectSeq(records, isLive)

\* Database.getTransactions / getCategories / getRecurring
getLive(st) == liveOnly(getAll(st))

\* mutant: the busy flag is looked at first
getStatusBusyFirst(online, syncing) ==
    IF syncing THEN "syncing" ELSE IF ~online THEN "offline" ELSE "synced"

\* SyncService.getStatus
getStatus(online, syncing) ==
    IF ~online THEN "offline" ELSE IF syncing THEN "syncing" ELSE "synced"

(***************************************************************************)
(* State.                                                                  *)
(***************************************************************************)
VARIABLES
    \* inputs and results of the merge under SpecMerge
    mX, mY, mZ, mPhase, mRes,
    \* server[k]: the array held by the server's JSON file of kind k
    server,
    \* store[c][k]: client c's object store of kind k
    store,
    \* queue[c]: client c's syncQueue store; keyGen[c]: its key generator
    queue, keyGen,
    \* pending[c]: the save or delete of client c that is between two awaits
    pending,
    \* SyncService fields
    isOnline, isSyncing,
    \* rounds[c]: the executions of sync() of client c that are in flight
    rounds,
    \* window.location.reload() has been called and the page not yet reloaded
    reloadPending,
    \* what the outside saw of the latest round of each client: fetch calls
    \* issued, result callbacks; and the status callbacks
    nRequests, notified, results,
    \* the current instant
    clock,
    \* how much of each budget of the model has been used
    used,
    \* history: the clients that completed a successful round since the last
    \* mutation, and for each client those that had when its last one started
    doneSet, full,
    \* SpendTrackApp: this.recurring and this.transactions, the same two
    \* collections in IndexedDB, the position of processRecurringTransactions
    recurring, transactions, dbRecurring, dbTransactions, gen,
    \* the environment of the page: which of the days the app is opened on it
    \* is, and the offset of the browser's time zone from UTC, in hours
    dayIx, utcOffset,
    \* fleet.db[c]: the transactions and recurring stores of device c, under
    \* SpecFleet, where each device opens the app, syncs and deletes as a whole
    fleet,
    \* the last soft delete, its kind and id, and what it gave its caller:
    \* "undefined" or "record" from Database.delete<Kind>, "404" or "200"
    \* from the DELETE route
    reply,
    \* the fields of SpendTrackApp and the positions of its handlers under
    \* SpecCat (category list), SpecMessage (sync message), SpecOverlap
    \* (calls of the generator) and SpecLoad (loadData)
    appState

mergeVars == <<mX, mY, mZ, mPhase, mRes>>
replicaVars == <<server, store, queue, keyGen, pending>>
serviceVars == <<isOnline, isSyncing, rounds, reloadPending>>
seenVars == <<nRequests, notified, results>>
histVars == <<used, doneSet, full, clock>>
sysVars == <<server, store, queue, keyGen, pending, isOnline, isSyncing,
             rounds, reloadPending, nRequests, notified, results, used,
             doneSet, full, clock>>
appVars == <<recurring, transactions, dbRecurring, dbTransactions, gen, dayIx,
            utcOffset, fleet, reply, appState>>
vars == <<mX, mY, mZ, mPhase, mRes, server, store, queue, keyGen, pending,
          isOnline, isSyncing, rounds, reloadPending, nRequests, notified,
          results, used, doneSet, full, clock, recurring, transactions,
          dbRecurring, dbTransactions, gen, dayIx, utcOffset, fleet, reply,
          appState>>

NoRes == [server |-> <<>>, client |-> <<>>]
Sides == {"server", "client"}
\* results[c]: the results notified by the latest round of c, and the last
NoResult == [count |-> 0, success |-> FALSE, failedAt |-> 0, wrote |-> <<>>,
             nonOk |-> {}]
NoPending == [op |-> "none", kind |-> "none", rec |-> Undefined]

\* the state after the server has started and the pages have been opened:
\* the pages in loaded have fetched the server's records into their stores
\* (fetchInitialData), the pages in actors may be online or offline, and
\* it is now the instant now
\* the generator of recurring transactions has nothing to do: no rule exists
\* NoDate stands for null where a date may stand
NoDate == <<>>
NoGen == [pc |-> "idle", today |-> NoDate, i |-> 0, nextDate |-> NoDate,
          runs |-> 0, reloads |-> 0, lastDone |-> NoDate, same |-> FALSE,
          created |-> <<>>, mark |-> NoDate]
\* no soft delete was called
NoReply == [ret |-> "none", kind |-> "none", id |-> "none"]
\* no device of the fleet has been set up
FleetOff == [db |-> <<>>, made |-> <<>>, opens |-> 0, syncs |-> 0,
             deletes |-> 0, result |-> <<>>]
\* SpendTrackApp before init(): no list loaded, no handler running
AppIdle == [categories |-> <<>>, at |-> "idle"]
AppOff ==
    /\ fleet = FleetOff
    /\ reply = NoReply
    /\ recurring = <<>> /\ transactions = <<>>
    /\ dbRecurring = <<>> /\ dbTransactions = <<>>
    /\ gen = NoGen
    /\ dayIx = 1
    /\ utcOffset = 0
    /\ appState = AppIdle

SysInit(actors, loaded, now) ==
    /\ server = [transactions |-> <<>>, categories |-> defaultCategories,
                 recurring |-> <<>>]
    /\ store = [c \in Clients |-> [k \in KindSet |->
                    IF c \in loaded THEN bulkPut(EmptyStore, server[k])
                    ELSE EmptyStore]]
    /\ queue = [c \in Clients |-> <<>>]
    /\ keyGen = [c \in Clients |-> 0]
    /\ pending = [c \in Clients |-> NoPending]
    /\ isOnline \in {f \in [Clients -> BOOLEAN] :
                        \A c \in Clients \ actors : f[c]}
    /\ isSyncing = [c \in Clients |-> FALSE]
    /\ rounds = [c \in Clients |-> <<>>]
    /\ reloadPending = [c \in Clients |-> FALSE]
    /\ nRequests = [c \in Clients |-> 0]
    /\ notified = [c \in Clients |-> [status |-> "none", tick |-> 0]]
    /\ results = [c \in Clients |-> NoResult]
    /\ used = [mutations |-> 0, rounds |-> [c \in Clients |-> 0],
               ignored |-> 0, events |-> 0,
               requests |-> 0]
    /\ doneSet = {}
    /\ full = [c \in Clients |-> {}]
    /\ clock = now

(***************************************************************************)
(* Local mutations of a client replica: the save and delete methods of     *)
(* Database.                                                               *)
(* Each await is a point where other steps of the same page may run.       *)
(***************************************************************************)
\* the ids the pages use for the records of each kind
IdsOfKind == [transactions |-> {"u-1"}, categories |-> {"cat-1"},
              recurring |-> {"u-1"}]

\* the records a caller hands to a save of kind k: live records, stamped by
\* the caller with any instant
SaveRecord(k) ==
    {r \in Record : /\ r.id \in IdsOfKind[k]
                    /\ r.deletedAt = NULL
                    /\ r.updatedAt \in Instants}

\* a mutation resets what is known about who has synced since
Mutated ==
    /\ doneSet' = {}
    /\ full' = [c \in Clients |-> {}]

\* taint the rounds in flight: they started before the last mutation
taint(rs) == [i \in 1..Len(rs) |-> [rs[i] EXCEPT !.clean = FALSE]]
taintAll == [c \in Clients |-> taint(rounds[c])]

\* the round has already read the local collection of kind k
hasRead(ctx, k) ==
    \E j \in 1..Len(Kinds) :
        /\ k = Kinds[j]
        /\ \/ ctx.k > j
           \/ ctx.k = j /\ ctx.pc # "read"

\* a put of kind k by page c: the rounds of c that have read kind k will not
\* transmit it; they note the key its journal entry is about to get
putDuring(c, k) ==
    LET rs == taintAll[c]
    IN  [taintAll EXCEPT ![c] =
            [i \in 1..Len(rs) |->
                IF hasRead(rs[i], k)
                THEN [rs[i] EXCEPT !.late = @ \cup {keyGen[c] + 1}]
                ELSE rs[i]]]

\* saveTransaction / saveCategory / saveRecurring, up to the end of put()
SaveCall(c, k, r) ==
    /\ used.mutations < MaxMutations
    /\ pending[c].op = "none"
    /\ store' = [store EXCEPT ![c][k] = put(@, r)]
    /\ pending' = [pending EXCEPT ![c] =
                      [op |-> "journal", kind |-> k, rec |-> r]]
    /\ used' = [used EXCEPT !.mutations = @ + 1]
    /\ rounds' = putDuring(c, k)
    /\ Mutated
    /\ UNCHANGED <<server, queue, keyGen, isOnline, isSyncing, reloadPending,
                   seenVars, clock, mergeVars, appVars>>

\* mutant: the delete of an absent id stores a tombstone for it
DeleteCallUpsert(c, k, id) ==
    /\ used.mutations < MaxMutations
    /\ pending[c].op = "none"
    /\ used' = [used EXCEPT !.mutations = @ + 1]
    /\ pending' = [pending EXCEPT ![c] =
            [op |-> "put", kind |-> k,
             rec |-> [(IF store[c][k][id] = Undefined
                       THEN [Undefined EXCEPT !.id = id]
                       ELSE store[c][k][id])
                      EXCEPT !.deletedAt = clock, !.updatedAt = clock]]]
    /\ reply' = [ret |-> "record", kind |-> k, id |-> id]
    /\ UNCHANGED <<server, store, queue, keyGen, isOnline, isSyncing, rounds,
                   reloadPending, seenVars, doneSet, full, clock, mergeVars,
                   recurring, transactions, dbRecurring, dbTransactions, gen,
                   dayIx, utcOffset, fleet, appState>>

\* deleteTransaction / deleteCategory / deleteRecurring: await get(id); an
\* absent id ends the call, which returns undefined; a present one is stamped
\* with the current instant, and the call will return the record
DeleteCall(c, k, id) ==
    /\ used.mutations < MaxMutations
    /\ pending[c].op = "none"
    /\ used' = [used EXCEPT !.mutations = @ + 1]
    /\ IF store[c][k][id] = Undefined
       THEN /\ UNCHANGED pending
            /\ reply' = [ret |-> "undefined", kind |-> k, id |-> id]
       ELSE /\ pending' = [pending EXCEPT ![c] =
                [op |-> "put", kind |-> k,
                 rec |-> [store[c][k][id] EXCEPT !.deletedAt = clock,
                                                 !.updatedAt = clock]]]
            /\ reply' = [ret |-> "record", kind |-> k, id |-> id]
    /\ UNCHANGED <<server, store, queue, keyGen, isOnline, isSyncing, rounds,
                   reloadPending, seenVars, doneSet, full, clock, mergeVars,
                   recurring, transactions, dbRecurring, dbTransactions, gen,
                   dayIx, utcOffset, fleet, appState>>

\* the put() of a delete call
DeletePut(c) ==
    /\ pending[c].op = "put"
    /\ store' = [store EXCEPT ![c][pending[c].kind] = put(@, pending[c].rec)]
    /\ pending' = [pending EXCEPT ![c].op = "journal"]
    /\ rounds' = putDuring(c, pending[c].kind)
    /\ Mutated
    /\ UNCHANGED <<server, queue, keyGen, isOnline, isSyncing, reloadPending,
                   seenVars, used, clock, mergeVars, appVars>>

\* addToSyncQueue: the entry gets the next key and the current instant
addToSyncQueue(q, key, type, data, now) ==
    Append(q, [key |-> key, type |-> type, data |-> data, timestamp |-> now])

\* mutant: the journal is written only while the page is online
JournalAppendOnlineOnly(c) ==
    /\ pending[c].op = "journal"
    /\ queue' = [queue EXCEPT ![c] =
                    IF isOnline[c]
                    THEN addToSyncQueue(@, keyGen[c] + 1,
                                        JournalType[pending[c].kind],
                                        pending[c].rec, clock)
                    ELSE @]
    /\ keyGen' = [keyGen EXCEPT ![c] = @ + 1]
    /\ pending' = [pending EXCEPT ![c] = NoPending]
    /\ UNCHANGED <<server, store, serviceVars, seenVars, histVars, mergeVars, appVars>>

JournalAppend(c) ==
    /\ pending[c].op = "journal"
    /\ queue' = [queue EXCEPT ![c] =
                    addToSyncQueue(@, keyGen[c] + 1,
                                   JournalType[pending[c].kind],
                                   pending[c].rec, clock)]
    /\ keyGen' = [keyGen EXCEPT ![c] = @ + 1]
    /\ pending' = [pending EXCEPT ![c] = NoPending]
    /\ UNCHANGED <<server, store, serviceVars, seenVars, histVars, mergeVars, appVars>>

(***************************************************************************)
(* SyncService: sync() and the online/offline listeners.                   *)
(***************************************************************************)
NoRound == [pc |-> "none", k |-> 0, body |-> <<>>, data |-> <<>>,
            merged |-> <<>>, ret |-> <<>>, readAt |-> EmptyStore,
            clean |-> FALSE, allOk |-> FALSE, known |-> {"start"},
            wrote |-> <<>>, failedAt |-> 0, nonOk |-> {},
            late |-> {}]

\* a round that has passed the guard and awaits its first getAll
NewRound == [NoRound EXCEPT !.pc = "read", !.k = 1, !.clean = TRUE,
                            !.allOk = TRUE]

\* mutant: the guard forgets the busy flag
syncReturnsAtOnceOfflineOnly(c, online) == ~online

\* mutant: the guard forgets the network status
syncReturnsAtOnceBusyOnly(c, online) == isSyncing[c]

\* if (!this.isOnline || this.isSyncing) return;
syncReturnsAtOnce(c, online) == ~online \/ isSyncing[c]

\* the status callbacks run: the last status seen, and a bit that flips on
\* every notification
notifyStatusChange(n, status) == [status |-> status, tick |-> 1 - n.tick]

\* a call of sync() from the application (a user action, a timer, app start)
SyncCall(c) ==
    IF syncReturnsAtOnce(c, isOnline[c])
    THEN /\ used.ignored < MaxIgnored
         /\ used' = [used EXCEPT !.ignored = @ + 1]
         /\ UNCHANGED <<replicaVars, serviceVars, seenVars, doneSet, full,
                        clock, mergeVars, appVars>>
    ELSE /\ used.rounds[c] < MaxRounds
         /\ used' = [used EXCEPT !.rounds[c] = @ + 1]
         /\ isSyncing' = [isSyncing EXCEPT ![c] = TRUE]
         /\ notified' = [notified EXCEPT ![c] =
                 notifyStatusChange(@, getStatus(isOnline[c], TRUE))]
         /\ rounds' = [rounds EXCEPT ![c] = Append(@, NewRound)]
         /\ nRequests' = [nRequests EXCEPT ![c] = 0]
         /\ results' = [results EXCEPT ![c] = NoResult]
         /\ UNCHANGED <<replicaVars, isOnline, reloadPending, doneSet, full,
                        clock, mergeVars, appVars>>

\* window 'online': isOnline = true; notifyStatusChange(); sync()
OnlineEvent(c) ==
    /\ used.events < MaxEvents
    /\ ~isOnline[c]
    /\ syncReturnsAtOnce(c, TRUE) \/ used.rounds[c] < MaxRounds
    /\ isOnline' = [isOnline EXCEPT ![c] = TRUE]
    /\ IF syncReturnsAtOnce(c, TRUE)
       THEN /\ notified' = [notified EXCEPT ![c] =
                    notifyStatusChange(@, getStatus(TRUE, isSyncing[c]))]
            /\ used' = [used EXCEPT !.events = @ + 1]
            /\ UNCHANGED <<isSyncing, rounds, nRequests, results>>
       ELSE /\ notified' = [notified EXCEPT ![c] =
                    notifyStatusChange(
                        notifyStatusChange(@, getStatus(TRUE, isSyncing[c])),
                        getStatus(TRUE, TRUE))]
            /\ used' = [used EXCEPT !.events = @ + 1, !.rounds[c] = @ + 1]
            /\ isSyncing' = [isSyncing EXCEPT ![c] = TRUE]
            /\ rounds' = [rounds EXCEPT ![c] = Append(@, NewRound)]
            /\ nRequests' = [nRequests EXCEPT ![c] = 0]
            /\ results' = [results EXCEPT ![c] = NoResult]
    /\ UNCHANGED <<replicaVars, reloadPending, doneSet, full, clock,
                   mergeVars, appVars>>

\* window 'offline': isOnline = false; notifyStatusChange()
OfflineEvent(c) ==
    /\ used.events < MaxEvents
    /\ isOnline[c]
    /\ used' = [used EXCEPT !.events = @ + 1]
    /\ isOnline' = [isOnline EXCEPT ![c] = FALSE]
    /\ notified' = [notified EXCEPT ![c] =
            notifyStatusChange(@, getStatus(FALSE, isSyncing[c]))]
    /\ UNCHANGED <<replicaVars, isSyncing, rounds, reloadPending, nRequests,
                   results, doneSet, full, clock, mergeVars, appVars>>

(***************************************************************************)
(* One round: for each kind in turn, read the local collection and post    *)
(* it, let the server merge, merge the answer into the local store; then   *)
(* clear the journal and report.                                           *)
(***************************************************************************)
setRound(c, i, ctx) == [rounds EXCEPT ![c][i] = ctx]
dropRound(c, i) ==
    [rounds EXCEPT ![c] = SubSeq(@, 1, i - 1) \o SubSeq(@, i + 1, Len(@))]
kindOf(ctx) == Kinds[ctx.k]

\* what follows the exchange of a kind: the next kind, or clearSyncQueue
afterKind(ctx) ==
    LET done == [ctx EXCEPT !.body = <<>>, !.data = <<>>, !.merged = <<>>,
                            !.ret = <<>>, !.readAt = EmptyStore]
    IN  IF ctx.k < Len(Kinds)
        THEN [done EXCEPT !.k = @ + 1, !.pc = "read"]
        ELSE [done EXCEPT !.pc = "clearQueue"]

\* sync<Kind>(): const local = await getAll...IncludingDeleted(); fetch(...)
SyncRead(c, i) ==
    /\ i \in 1..Len(rounds[c])
    /\ rounds[c][i].pc = "read"
    /\ rounds' = setRound(c, i,
            [rounds[c][i] EXCEPT !.pc = "wait",
                                 !.body = getAll(store[c][kindOf(rounds[c][i])]),
                                 !.known = IF @ = {"start"} THEN doneSet ELSE @])
    /\ nRequests' = [nRequests EXCEPT ![c] = @ + 1]
    /\ UNCHANGED <<replicaVars, isOnline, isSyncing, reloadPending, notified,
                   results, histVars, mergeVars, appVars>>

\* mutant: the handler answers with the merge and writes nothing
syncHandlerNoWrite(serverRecords, body) ==
    [file |-> serverRecords,
     json |-> mergeRecords(serverRecords, body)]

\* POST /api/<kind>/sync: merge, writeJSON(merged), res.json(merged)
syncHandler(serverRecords, body) ==
    [file |-> mergeRecords(serverRecords, body),
     json |-> mergeRecords(serverRecords, body)]

\* the server handles the request of a round and answers 200
ServerSync(c, i) ==
    /\ i \in 1..Len(rounds[c])
    /\ rounds[c][i].pc = "wait"
    /\ LET k == kindOf(rounds[c][i])
           h == syncHandler(server[k], rounds[c][i].body)
       IN  /\ server' = [server EXCEPT ![k] = h.file]
           /\ rounds' = setRound(c, i, [rounds[c][i] EXCEPT !.pc = "resp",
                                                            !.data = h.json])
    /\ UNCHANGED <<store, queue, keyGen, pending, isOnline, isSyncing,
                   reloadPending, seenVars, histVars, mergeVars, appVars>>

\* authMiddleware answers 401: the transactions exchange calls
\* window.location.reload(), the other two do nothing; the round goes on
Respond401(c, i) ==
    /\ i \in 1..Len(rounds[c])
    /\ rounds[c][i].pc = "wait"
    /\ reloadPending' = [reloadPending EXCEPT ![c] =
                            @ \/ kindOf(rounds[c][i]) = "transactions"]
    /\ rounds' = setRound(c, i,
            afterKind([rounds[c][i] EXCEPT !.allOk = FALSE,
                                           !.nonOk = @ \cup {"401"}]))
    /\ UNCHANGED <<replicaVars, isOnline, isSyncing, seenVars, histVars,
                   mergeVars, appVars>>

\* any other status that is not ok: nothing is merged and the round goes on
Respond500(c, i) ==
    /\ i \in 1..Len(rounds[c])
    /\ rounds[c][i].pc = "wait"
    /\ rounds' = setRound(c, i,
            afterKind([rounds[c][i] EXCEPT !.allOk = FALSE,
                                           !.nonOk = @ \cup {"500"}]))
    /\ UNCHANGED <<replicaVars, isOnline, isSyncing, reloadPending, seenVars,
                   histVars, mergeVars, appVars>>

\* the result callbacks get {success, ...}; failedAt, wrote and nonOk record
\* for the history which exchange was rejected, which kinds the round had
\* written and which statuses other than 200 it was answered with
notifySyncResult(rs, success, ctx) ==
    [count |-> rs.count + 1, success |-> success, failedAt |-> ctx.failedAt,
     wrote |-> ctx.wrote, nonOk |-> ctx.nonOk]

\* mutant: the rejection is swallowed and the round goes on with the next kind
FetchRejectSwallowed(c, i, processed) ==
    /\ i \in 1..Len(rounds[c])
    /\ rounds[c][i].pc = "wait"
    /\ server' = IF processed
                 THEN [server EXCEPT ![kindOf(rounds[c][i])] =
                          syncHandler(@, rounds[c][i].body).file]
                 ELSE server
    /\ rounds' = setRound(c, i,
            afterKind([rounds[c][i] EXCEPT !.allOk = FALSE,
                                           !.failedAt = rounds[c][i].k]))
    /\ UNCHANGED <<store, queue, keyGen, pending, isOnline, isSyncing,
                   reloadPending, seenVars, histVars, mergeVars, appVars>>

\* mutant: the failure is reported but the busy flag is left set
FetchRejectStaysBusy(c, i, processed) ==
    /\ i \in 1..Len(rounds[c])
    /\ rounds[c][i].pc = "wait"
    /\ server' = IF processed
                 THEN [server EXCEPT ![kindOf(rounds[c][i])] =
                          syncHandler(@, rounds[c][i].body).file]
                 ELSE server
    /\ results' = [results EXCEPT ![c] =
            notifySyncResult(@, FALSE,
                             [rounds[c][i] EXCEPT !.failedAt = rounds[c][i].k])]
    /\ rounds' = dropRound(c, i)
    /\ UNCHANGED <<store, queue, keyGen, pending, isOnline, isSyncing,
                   reloadPending, nRequests, notified, histVars, mergeVars,
                   appVars>>

\* fetch rejects (connection lost, timeout), whether or not the server got
\* the request: sync<Kind> rethrows, sync() reports {success: false} and its
\* finally block ends the round
FetchReject(c, i, processed) ==
    /\ i \in 1..Len(rounds[c])
    /\ rounds[c][i].pc = "wait"
    /\ server' = IF processed
                 THEN [server EXCEPT ![kindOf(rounds[c][i])] =
                          syncHandler(@, rounds[c][i].body).file]
                 ELSE server
    /\ results' = [results EXCEPT ![c] =
            notifySyncResult(@, FALSE,
                             [rounds[c][i] EXCEPT !.failedAt = rounds[c][i].k])]
    /\ isSyncing' = [isSyncing EXCEPT ![c] = FALSE]
    /\ notified' = [notified EXCEPT ![c] =
            notifyStatusChange(@, getStatus(isOnline[c], FALSE))]
    /\ rounds' = dropRound(c, i)
    /\ UNCHANGED <<store, queue, keyGen, pending, isOnline, reloadPending,
                   nRequests, histVars, mergeVars, appVars>>

\* mutant: the tombstones are stripped before the merged list is stored
clientMergeLivePersist(localRecords, serverRecords) ==
    [persist |-> liveOnly(dbMergeRecords(localRecords, serverRecords)),
     ret |-> liveOnly(dbMergeRecords(localRecords, serverRecords))]

\* Database.merge<Kind>: what is stored and what is returned
clientMerge(localRecords, serverRecords) ==
    [persist |-> dbMergeRecords(localRecords, serverRecords),
     ret |-> liveOnly(dbMergeRecords(localRecords, serverRecords))]

\* response.ok: merge<Kind>(data) reads the local store and merges
MergeRead(c, i) ==
    /\ i \in 1..Len(rounds[c])
    /\ rounds[c][i].pc = "resp"
    /\ LET k == kindOf(rounds[c][i])
           m == clientMerge(getAll(store[c][k]), rounds[c][i].data)
       IN  rounds' = setRound(c, i,
                [rounds[c][i] EXCEPT !.pc = "clear", !.merged = m.persist,
                                     !.ret = m.ret, !.readAt = store[c][k]])
    /\ UNCHANGED <<replicaVars, isOnline, isSyncing, reloadPending, seenVars,
                   histVars, mergeVars, appVars>>

\* await this.clear(store)
MergeClear(c, i) ==
    /\ i \in 1..Len(rounds[c])
    /\ rounds[c][i].pc = "clear"
    /\ store' = [store EXCEPT ![c][kindOf(rounds[c][i])] = EmptyStore]
    /\ rounds' = setRound(c, i,
            [rounds[c][i] EXCEPT !.pc = "bulkPut", !.wrote = Append(@, rounds[c][i].k)])
    /\ UNCHANGED <<server, queue, keyGen, pending, isOnline, isSyncing,
                   reloadPending, seenVars, histVars, mergeVars, appVars>>

\* mutant: the merged records are journaled like local saves
MergeBulkPutJournaled(c, i) ==
    /\ i \in 1..Len(rounds[c])
    /\ rounds[c][i].pc = "bulkPut"
    /\ store' = [store EXCEPT ![c][kindOf(rounds[c][i])] =
                    bulkPut(@, rounds[c][i].merged)]
    /\ queue' = [queue EXCEPT ![c] =
            IF rounds[c][i].merged = <<>> THEN @
            ELSE addToSyncQueue(@, keyGen[c] + 1,
                                JournalType[kindOf(rounds[c][i])],
                                Head(rounds[c][i].merged), clock)]
    /\ rounds' = setRound(c, i, afterKind(rounds[c][i]))
    /\ UNCHANGED <<server, keyGen, pending, isOnline, isSyncing,
                   reloadPending, seenVars, histVars, mergeVars, appVars>>

\* await this.bulkPut(store, merged); the exchange of this kind is over
MergeBulkPut(c, i) ==
    /\ i \in 1..Len(rounds[c])
    /\ rounds[c][i].pc = "bulkPut"
    /\ store' = [store EXCEPT ![c][kindOf(rounds[c][i])] =
                    bulkPut(@, rounds[c][i].merged)]
    /\ rounds' = setRound(c, i, afterKind(rounds[c][i]))
    /\ UNCHANGED <<server, queue, keyGen, pending, isOnline, isSyncing,
                   reloadPending, seenVars, histVars, mergeVars, appVars>>

\* await this.db.clearSyncQueue()
SyncClearQueue(c, i) ==
    /\ i \in 1..Len(rounds[c])
    /\ rounds[c][i].pc = "clearQueue"
    /\ queue' = [queue EXCEPT ![c] = <<>>]
    /\ rounds' = setRound(c, i, [rounds[c][i] EXCEPT !.pc = "finish"])
    /\ UNCHANGED <<server, store, keyGen, pending, isOnline, isSyncing,
                   reloadPending, seenVars, histVars, mergeVars, appVars>>

\* the success result, then the finally block
SyncFinish(c, i) ==
    /\ i \in 1..Len(rounds[c])
    /\ rounds[c][i].pc = "finish"
    /\ results' = [results EXCEPT ![c] = notifySyncResult(@, TRUE, rounds[c][i])]
    /\ isSyncing' = [isSyncing EXCEPT ![c] = FALSE]
    /\ notified' = [notified EXCEPT ![c] =
            notifyStatusChange(@, getStatus(isOnline[c], FALSE))]
    /\ rounds' = dropRound(c, i)
    /\ IF rounds[c][i].clean /\ rounds[c][i].allOk
       THEN /\ doneSet' = doneSet \cup {c}
            /\ full' = [full EXCEPT ![c] = rounds[c][i].known \cup {c}]
       ELSE UNCHANGED <<doneSet, full>>
    /\ UNCHANGED <<replicaVars, isOnline, reloadPending, nRequests, used,
                   clock, mergeVars, appVars>>

\* the page reloads after window.location.reload(): the running script and
\* its SyncService are gone, a new SyncService is constructed
PageReload(c) ==
    /\ reloadPending[c]
    /\ reloadPending' = [reloadPending EXCEPT ![c] = FALSE]
    /\ rounds' = [rounds EXCEPT ![c] = <<>>]
    /\ isSyncing' = [isSyncing EXCEPT ![c] = FALSE]
    /\ pending' = [pending EXCEPT ![c] = NoPending]
    /\ UNCHANGED <<server, store, queue, keyGen, isOnline, seenVars, histVars,
                   mergeVars, appVars>>

Slots == 1..2

ClientStep(c) ==
    \/ \E k \in KindSet : \E r \in SaveRecord(k) : SaveCall(c, k, r)
    \/ \E k \in KindSet : \E id \in IdsOfKind[k] : DeleteCall(c, k, id)
    \/ DeletePut(c)
    \/ JournalAppend(c)
    \/ SyncCall(c)
    \/ OnlineEvent(c)
    \/ OfflineEvent(c)
    \/ \E i \in Slots : SyncRead(c, i)
    \/ \E i \in Slots : ServerSync(c, i)
    \/ \E i \in Slots : Respond401(c, i)
    \/ \E i \in Slots : Respond500(c, i)
    \/ \E i \in Slots, processed \in BOOLEAN : FetchReject(c, i, processed)
    \/ \E i \in Slots : MergeRead(c, i)
    \/ \E i \in Slots : MergeClear(c, i)
    \/ \E i \in Slots : MergeBulkPut(c, i)
    \/ \E i \in Slots : SyncClearQueue(c, i)
    \/ \E i \in Slots : SyncFinish(c, i)
    \/ PageReload(c)

\* time passes: new Date() reads clock
Tick ==
    /\ clock < MaxTime
    /\ clock' = clock + 1
    /\ UNCHANGED <<replicaVars, serviceVars, seenVars, used, doneSet, full,
                   mergeVars, appVars>>

Next == Tick \/ \E c \in {"A"} : ClientStep(c)

Init ==
    /\ SysInit({"A"}, {"A"}, 1)
    /\ AppOff
    /\ mX = <<>> /\ mY = <<>> /\ mZ = <<>>
    /\ mPhase = "off"
    /\ mRes = [xy |-> NoRes, again |-> NoRes, xyz |-> NoRes, xzy |-> NoRes]

Spec == Init /\ [][Next]_vars

(***************************************************************************)
(* SpecTwo: two pages and the server, every exchange answered with 200.    *)
(* The pages were opened after the server had started, at the latest       *)
(* instant; the callers of save may still stamp their records earlier.     *)
(***************************************************************************)
\* a page is between the read and the write of one kind's exchange
Exchanging(c) ==
    \E i \in 1..Len(rounds[c]) :
        rounds[c][i].pc \in {"wait", "resp", "clear", "bulkPut"}

RoundsUsed == used.rounds["A"] + used.rounds["B"]

\* the steps of client c's rounds; sync() is called when c is idle
TwoRoundStep(c) ==
    \/ ~isSyncing[c] /\ RoundsUsed < ConvRounds /\ SyncCall(c)
    \/ \E i \in Slots : SyncRead(c, i)
    \/ \E i \in Slots : ServerSync(c, i)
    \/ \E i \in Slots : MergeRead(c, i)
    \/ \E i \in Slots : MergeClear(c, i)
    \/ \E i \in Slots : MergeBulkPut(c, i)
    \/ \E i \in Slots : SyncClearQueue(c, i)
    \/ \E i \in Slots : SyncFinish(c, i)

\* the steps of the two pages touch disjoint state except for the server's
\* handler, which runs to completion: a page's exchange of one kind is
\* scheduled without round steps of the other page in between
TwoStep(c) ==
    \/ \E k \in KindSet : \E r \in SaveRecord(k) : SaveCall(c, k, r)
    \/ \E k \in KindSet : \E id \in IdsOfKind[k] : DeleteCall(c, k, id)
    \/ DeletePut(c)
    \/ JournalAppend(c)
    \/ (\A d \in Clients \ {c} : ~Exchanging(d)) /\ TwoRoundStep(c)

NextTwo == \E c \in Clients : TwoStep(c)

InitTwo ==
    /\ SysInit({}, Clients, MaxTime)
    /\ AppOff
    /\ mX = <<>> /\ mY = <<>> /\ mZ = <<>>
    /\ mPhase = "off"
    /\ mRes = [xy |-> NoRes, again |-> NoRes, xyz |-> NoRes, xzy |-> NoRes]

SpecTwo == InitTwo /\ [][NextTwo]_vars

(***************************************************************************)
(* SpecMerge: the two merge functions applied to bounded inputs.           *)
(* mX is the baseline, mY and mZ are remote snapshots.                     *)
(***************************************************************************)
\* the records fed to the merge: a tombstone carries its deletion instant
MergeRecord ==
    {r \in Record :
        /\ r.deletedAt # NULL =>
              /\ r.data = "p"
              /\ r.deletedAt = (IF r.updatedAt = 0 THEN 1 ELSE r.updatedAt)}

\* both implementations, applied to the same arguments
bothMerges(base, remote) ==
    [server |-> mergeRecords(base, remote),
     client |-> dbMergeRecords(base, remote)]


MergeInit ==
    /\ \E a, b, c \in 0..MaxLen :
          /\ a + b + c <= MaxTotal
          /\ mX \in [1..a -> MergeRecord]
          /\ mY \in [1..b -> MergeRecord]
          /\ mZ \in [1..c -> MergeRecord]
    /\ mPhase = "input"
    /\ mRes = [xy |-> NoRes, again |-> NoRes, xyz |-> NoRes, xzy |-> NoRes]
    /\ SysInit({}, {}, 1)
    /\ AppOff

\* merge(X, Y)
ApplyMerge ==
    /\ mPhase = "input"
    /\ mRes' = [mRes EXCEPT !.xy = bothMerges(mX, mY)]
    /\ mPhase' = "merged"
    /\ UNCHANGED <<mX, mY, mZ, sysVars, appVars>>

\* merge(X, merge(X, Y)): the same remote snapshot applied again
ApplyAgain ==
    /\ mPhase = "merged"
    /\ mRes' = [mRes EXCEPT !.again =
                    [server |-> mergeRecords(mX, mRes.xy.server),
                     client |-> dbMergeRecords(mX, mRes.xy.client)]]
    /\ mPhase' = "again"
    /\ UNCHANGED <<mX, mY, mZ, sysVars, appVars>>

\* merge(merge(X, Y), Z)
ApplyThenZ ==
    /\ mPhase = "again"
    /\ mRes' = [mRes EXCEPT !.xyz =
                    [server |-> mergeRecords(mRes.xy.server, mZ),
                     client |-> dbMergeRecords(mRes.xy.client, mZ)]]
    /\ mPhase' = "thenZ"
    /\ UNCHANGED <<mX, mY, mZ, sysVars, appVars>>

\* merge(merge(X, Z), Y)
ApplyOtherOrder ==
    /\ mPhase = "thenZ"
    /\ mRes' = [mRes EXCEPT !.xzy =
                    [server |-> mergeRecords(mergeRecords(mX, mZ), mY),
                     client |-> dbMergeRecords(dbMergeRecords(mX, mZ), mY)]]
    /\ mPhase' = "done"
    /\ UNCHANGED <<mX, mY, mZ, sysVars, appVars>>

MergeNext == ApplyMerge \/ ApplyAgain \/ ApplyThenZ \/ ApplyOtherOrder

SpecMerge == MergeInit /\ [][MergeNext]_vars

(***************************************************************************)
(* Claims about the merge (checked under SpecMerge).                       *)
(***************************************************************************)
\* a is a strictly later instant than b, both parseable
StrictlyLater(a, b) == a \in Instants /\ b \in Instants /\ a > b
BothUnique == UniqueIds(mX) /\ UniqueIds(mY)
CommonIds == IdsOf(mX) \cap IdsOf(mY)

\* C2 (last-write-wins): for every id held by both the baseline mX and the
\* remote mY, the merge outputs the remote record when its updatedAt is a
\* strictly later instant than the baseline's, and the baseline record
\* unchanged otherwise (equal, older or not comparable).
C2_LastWriteWins ==
    (mPhase # "input" /\ BothUnique) =>
        \A s \in Sides : \A id \in CommonIds :
            Held(mRes.xy[s], id) =
                IF StrictlyLater(Held(mY, id).updatedAt, Held(mX, id).updatedAt)
                THEN Held(mY, id)
                ELSE Held(mX, id)

\* a tie on updatedAt between two different versions: the baseline is kept
C2_Witness ==
    /\ mPhase = "merged" /\ BothUnique
    /\ \E id \in CommonIds :
          /\ Held(mX, id) # Held(mY, id)
          /\ Held(mX, id).updatedAt = Held(mY, id).updatedAt
          /\ Held(mX, id).updatedAt \in Instants
          /\ Held(mRes.xy.server, id) = Held(mX, id)
          /\ Held(mRes.xy.client, id) = Held(mX, id)

\* C3 (merge never drops a record): with unique ids in each input, the ids
\* of the output are the union of the ids of the inputs, one record per id;
\* merging with an empty collection returns the records of the other side.
C3_UnionOfIds ==
    (mPhase # "input" /\ BothUnique) =>
        \A s \in Sides :
            /\ IdsOf(mRes.xy[s]) = IdsOf(mX) \cup IdsOf(mY)
            /\ UniqueIds(mRes.xy[s])
            /\ Len(mRes.xy[s]) = Cardinality(IdsOf(mX) \cup IdsOf(mY))
            /\ mY = <<>> => mRes.xy[s] = mX
            /\ mX = <<>> => mRes.xy[s] = mY

\* two disjoint non-empty inputs have been merged into two records
C3_Witness ==
    /\ mPhase = "merged" /\ BothUnique
    /\ mX # <<>> /\ mY # <<>>
    /\ IdsOf(mX) \cap IdsOf(mY) = {}
    /\ Len(mRes.xy.server) = 2

\* the record of coll for id is a tombstone stamped T
TombAt(coll, id, T) ==
    /\ id \in IdsOf(coll)
    /\ Held(coll, id).deletedAt # NULL
    /\ Held(coll, id).updatedAt = T
\* coll holds a copy of id that is older than T
StaleAt(coll, id, T) ==
    /\ id \in IdsOf(coll)
    /\ StrictlyLater(T, Held(coll, id).updatedAt)

\* C4 (tombstone permanence): when one input holds a tombstone stamped T for
\* an id and the other holds a copy older than T, the output for that id is
\* the tombstone, whichever of the two is the baseline.
C4_TombstonePermanence ==
    (mPhase # "input" /\ BothUnique) =>
        \A s \in Sides : \A id \in CommonIds : \A T \in Instants :
            /\ (TombAt(mX, id, T) /\ StaleAt(mY, id, T)) =>
                  Held(mRes.xy[s], id) = Held(mX, id)
            /\ (TombAt(mY, id, T) /\ StaleAt(mX, id, T)) =>
                  Held(mRes.xy[s], id) = Held(mY, id)

\* the remote tombstone has replaced an older live baseline copy
C4_Witness ==
    /\ mPhase = "merged" /\ BothUnique
    /\ \E id \in CommonIds : \E T \in Instants :
          /\ TombAt(mY, id, T) /\ StaleAt(mX, id, T)
          /\ isLive(Held(mX, id))
          /\ ~isLive(Held(mRes.xy.server, id))
          /\ ~isLive(Held(mRes.xy.client, id))

\* C5 (idempotence): mergeRecords(X, mergeRecords(X, Y)) is the same list
\* as mergeRecords(X, Y), for any two collections.
C5_Idempotent ==
    mPhase \in {"again", "thenZ", "done"} =>
        \A s \in Sides : mRes.again[s] = mRes.xy[s]

\* the first merge took a newer remote record and added an unseen one
C5_Witness ==
    /\ mPhase = "again"
    /\ \E id \in CommonIds :
          StrictlyLater(Held(mY, id).updatedAt, Held(mX, id).updatedAt)
    /\ IdsOf(mY) \ IdsOf(mX) # {}
    /\ mRes.xy.server # mX
    /\ mRes.again.server = mRes.xy.server

AllInputs == Range(mX) \cup Range(mY) \cup Range(mZ)
\* no two different versions of one id carry the same updatedAt
NoTie == \A a, b \in AllInputs :
            (a.id = b.id /\ a.updatedAt = b.updatedAt) => a = b
AllParseable == \A a \in AllInputs : a.updatedAt \in Instants
SameWinners ==
    \A s \in Sides :
        /\ IdsOf(mRes.xyz[s]) = IdsOf(mRes.xzy[s])
        /\ \A id \in IdsOf(mRes.xyz[s]) :
              Held(mRes.xyz[s], id) = Held(mRes.xzy[s], id)

\* C6 as stated (order independence): merging mY then mZ into mX yields for
\* every id the same winner as merging mZ then mY, for any three collections
\* (here already on collections whose timestamps all parse).
C6_OrderIndependent_Original == (mPhase = "done" /\ AllParseable) => SameWinners

\* C6 amended: the two orders yield the same winner for every id provided
\* every updatedAt parses to an instant and no two different versions of the
\* same id carry the same updatedAt.
C6_OrderIndependent ==
    (mPhase = "done" /\ NoTie /\ AllParseable) => SameWinners

\* both snapshots and the baseline hold versions of one id
C6_Witness ==
    /\ mPhase = "done" /\ NoTie /\ AllParseable
    /\ \E id \in IdsOf(mX) \cap IdsOf(mY) \cap IdsOf(mZ) :
          /\ Held(mY, id) # Held(mZ, id)
          /\ Held(mX, id) # Held(mY, id)
          /\ Held(mRes.xyz.server, id) # Held(mX, id)
    /\ SameWinners


(***************************************************************************)
(* Claims about the rounds (checked under Spec and SpecTwo).               *)
(***************************************************************************)
\* round i of client c takes the step that leads from pc from to pc to
StepOf(c, i, from, to) ==
    /\ i <= Len(rounds[c])
    /\ Len(rounds'[c]) = Len(rounds[c])
    /\ rounds[c][i].pc = from
    /\ rounds'[c][i].pc = to

\* every client has completed a round in which every exchange was answered
\* 200, which started after every client had completed such a round, with no
\* local mutation since; and no round is in flight
Quiesced ==
    \A c \in Clients : full[c] = Clients /\ rounds[c] = <<>>

\* what the server holds for an id of a kind (Undefined if nothing)
ServerHeld(k, id) == Held(server[k], id)

\* two records of one id that differ and carry the same updatedAt
Tie(a, b) ==
    /\ a # Undefined /\ b # Undefined
    /\ a # b
    /\ getTime(a.updatedAt) = getTime(b.updatedAt)

C7_ServerStep ==
    [][/\ \A k \in KindSet :
            server'[k] # server[k] =>
                \E c \in Clients : \E i \in 1..Len(rounds[c]) :
                    /\ rounds[c][i].pc = "wait"
                    /\ kindOf(rounds[c][i]) = k
                    /\ server'[k] = mergeRecords(server[k], rounds[c][i].body)
       /\ \A c \in Clients : \A i \in Slots :
          StepOf(c, i, "wait", "resp") =>
              LET k == kindOf(rounds[c][i])
                  sent == rounds[c][i].body
                  answer == rounds'[c][i].data
              IN  /\ server'[k] = mergeRecords(server[k], sent)
                  /\ answer = server'[k]
                  /\ \A j \in KindSet \ {k} : server'[j] = server[j]
                  /\ \A r \in Range(server[k]) \cup Range(sent) :
                        r.deletedAt # NULL => r.id \in IdsOf(answer)
                  /\ \A id \in IdsOf(server[k]) \ IdsOf(sent) :
                        Held(answer, id) = Held(server[k], id)
                  /\ \A id \in IdsOf(sent) \ IdsOf(server[k]) :
                        Held(answer, id) = Held(sent, id)
                  /\ \A id \in IdsOf(sent) \cap IdsOf(server[k]) :
                        Held(answer, id) =
                            IF StrictlyLater(Held(sent, id).updatedAt,
                                             Held(server[k], id).updatedAt)
                            THEN Held(sent, id)
                            ELSE Held(server[k], id)]_vars

\* the server has answered a categories request that carried a tombstone
\* newer than its live copy: it holds and returns the tombstone
C7_Witness ==
    \E c \in Clients : \E i \in 1..Len(rounds[c]) :
        /\ rounds[c][i].pc = "resp"
        /\ kindOf(rounds[c][i]) = "categories"
        /\ rounds[c][i].body # <<>>
        /\ rounds[c][i].data = server["categories"]
        /\ \E r \in Range(rounds[c][i].data) :
              r.deletedAt # NULL /\ r \in Range(rounds[c][i].body)

\* the records of a list whose deletedAt is null
LiveRecords(records) == {r \in Range(records) : r.deletedAt = NULL}

\* C8 (client step of a round): for each kind the client sends its whole
\* local collection, tombstones included; merge<Kind> computes
\* mergeRecords(its own local store, the collection the server returned),
\* empties the store and puts every merged record, tombstones included; what
\* it returns, like what getTransactions/getCategories/getRecurring return,
\* holds exactly the records whose deletedAt is null.
C8_ClientStep ==
    [][\A c \in Clients : \A i \in Slots :
          /\ StepOf(c, i, "read", "wait") =>
                LET k == kindOf(rounds[c][i])
                IN  \A id \in Ids :
                        store[c][k][id] # Undefined =>
                            Held(rounds'[c][i].body, id) = store[c][k][id]
          /\ StepOf(c, i, "resp", "clear") =>
                LET k == kindOf(rounds[c][i])
                    mine == getAll(store[c][k])
                    theirs == rounds[c][i].data
                    merged == rounds'[c][i].merged
                IN  /\ merged = dbMergeRecords(mine, theirs)
                    /\ IdsOf(merged) = IdsOf(mine) \cup IdsOf(theirs)
                    /\ \A id \in IdsOf(mine) \cap IdsOf(theirs) :
                          Held(merged, id) =
                              IF StrictlyLater(Held(theirs, id).updatedAt,
                                               Held(mine, id).updatedAt)
                              THEN Held(theirs, id)
                              ELSE Held(mine, id)
                    /\ Range(rounds'[c][i].ret) = LiveRecords(merged)
          /\ StepOf(c, i, "clear", "bulkPut") =>
                store'[c][kindOf(rounds[c][i])] = EmptyStore
          /\ (i <= Len(rounds[c]) /\ Len(rounds'[c]) = Len(rounds[c])
                /\ rounds[c][i].pc = "bulkPut"
                /\ rounds'[c][i].pc # "bulkPut") =>
                LET k == kindOf(rounds[c][i])
                    merged == rounds[c][i].merged
                IN  /\ \A id \in IdsOf(merged) :
                          store'[c][k][id] = Held(merged, id)
                    /\ \A id \in Ids \ IdsOf(merged) :
                          store'[c][k][id] = store[c][k][id]
                    /\ Range(getLive(store'[c][k])) =
                          {r \in Range(getAll(store'[c][k])) :
                              r.deletedAt = NULL}]_vars

\* a round has merged the categories: the store keeps the tombstone that the
\* client sent and the server returned, and callers see no category
C8_Witness ==
    \E c \in Clients : \E i \in 1..Len(rounds[c]) :
        /\ rounds[c][i].k = 3 /\ rounds[c][i].pc = "read"
        /\ rounds[c][i].wrote = <<1, 2>>
        /\ store[c]["categories"]["cat-1"] # Undefined
        /\ store[c]["categories"]["cat-1"].deletedAt # NULL
        /\ ServerHeld("categories", "cat-1") = store[c]["categories"]["cat-1"]
        /\ getLive(store[c]["categories"]) = <<>>

C10_NetworkFailure ==
    [][\A c \in Clients :
          /\ \A i \in 1..Len(rounds[c]) : rounds[c][i].failedAt = 0
          /\ results[c].failedAt # 0 =>
                /\ ~results[c].success
                /\ \A n \in 1..Len(results[c].wrote) :
                      results[c].wrote[n] < results[c].failedAt
          /\ (results'[c].failedAt # 0 /\ results'[c] # results[c]) =>
                /\ UNCHANGED <<store, queue>>
                /\ Len(rounds'[c]) = Len(rounds[c]) - 1
                /\ ~isSyncing'[c]]_vars

\* the recurring exchange of a round was rejected after the round had
\* fetched the server's category into the store: the category is still there
C10_Witness ==
    /\ rounds["A"] = <<>>
    /\ results["A"].failedAt = 3
    /\ ~results["A"].success
    /\ results["A"].wrote = <<1, 2>>
    /\ used.mutations = 0 /\ used.rounds["A"] = 1
    /\ store["A"]["categories"]["cat-1"] = ServerHeld("categories", "cat-1")
    /\ ServerHeld("categories", "cat-1") # Undefined

(***************************************************************************)
(* Claims about the answers that are not 200 and about the journal         *)
(* (checked under Spec).                                                   *)
(***************************************************************************)
\* the positions of a round at which it goes on exchanging or finishing
GoingOn == {"wait", "resp", "clear", "bulkPut", "clearQueue", "finish"}

\* C11 (unexpected status), as the specification states it: a round that was
\* answered a status other than 200 and 401 is aborted, so it exchanges no
\* later kind and notifies no success result.
C11_UnexpectedStatus_Original ==
    \A c \in Clients :
        /\ \A i \in 1..Len(rounds[c]) :
              "500" \in rounds[c][i].nonOk => rounds[c][i].pc \notin GoingOn
        /\ "500" \in results[c].nonOk => ~results[c].success

\* C12 (auth rejection), as the specification states it: a round that was
\* answered 401 for any kind is aborted, so it exchanges no later kind and
\* notifies no success result, and the caller is signalled (the page is about
\* to reload, or has reloaded and the round is gone).
C12_AuthRejection_Original ==
    \A c \in Clients :
        /\ \A i \in 1..Len(rounds[c]) :
              "401" \in rounds[c][i].nonOk =>
                  /\ rounds[c][i].pc \notin GoingOn
                  /\ reloadPending[c]
        /\ "401" \in results[c].nonOk => ~results[c].success

\* the entries of a journal
Entries(q) == {q[n] : n \in 1..Len(q)}

\* C13 (journal cleared only after a fully successful round), as the
\* specification states it: an entry leaves the journal only in the clear of
\* a round all of whose exchanges were answered 200 and merged.
C13_JournalKept_Original ==
    [][\A c \in Clients :
          Entries(queue[c]) \ Entries(queue'[c]) # {} =>
              \E i \in 1..Len(rounds[c]) :
                  /\ rounds[c][i].pc = "clearQueue"
                  /\ rounds[c][i].allOk]_vars

\* the step of client c is the reload of its page
IsReload(c) == reloadPending[c] /\ ~reloadPending'[c]

\* the step of client c writes its store of kind k outside a merge
LocalPut(c, k) ==
    /\ store'[c][k] # store[c][k]
    /\ \A i \in 1..Len(rounds[c]) :
          ~(rounds[c][i].pc \in {"clear", "bulkPut"} /\ kindOf(rounds[c][i]) = k
              /\ (Len(rounds'[c]) # Len(rounds[c])
                    \/ rounds'[c][i].pc # rounds[c][i].pc))

C15_ClearedUpToAck_Original ==
    [][\A c \in Clients : \A i \in 1..Len(rounds[c]) :
          (/\ rounds[c][i].pc = "clearQueue"
           /\ rounds[c][i].nonOk = {}
           /\ Len(rounds'[c]) = Len(rounds[c])
           /\ rounds'[c][i].pc = "finish") =>
              \A e \in Entries(queue[c]) :
                  e.key \in rounds[c][i].late => e \in Entries(queue'[c])]_vars

(***************************************************************************)
(* SpecServer: two sync requests for the same kind, from two clients, are  *)
(* at the server together.  A route handler of server.js is synchronous    *)
(* (readFileSync, mergeRecords, writeFileSync, res.json): Node runs it to  *)
(* its end before it starts the handler of another request.  The handler   *)
(* is modelled in two steps, and the event loop decides which may run.     *)
(*   mX: the file before the requests, mY: A's body, mZ: B's body          *)
(***************************************************************************)
\* mutant: handlers of different requests interleave
eventLoopShared(c) == TRUE

\* the event loop starts the handler of c only when no other handler is
\* between its first and its last statement
eventLoopFree(c) ==
    \A d \in Clients \ {c} : \A i \in 1..Len(rounds[d]) :
        rounds[d][i].pc # "handling"

\* the handler up to the merge: readJSON(FILE), mergeRecords(server, client)
syncRouteRead(c) ==
    /\ mPhase = "server"
    /\ Len(rounds[c]) = 1
    /\ rounds[c][1].pc = "wait"
    /\ eventLoopFree(c)
    /\ rounds' = setRound(c, 1,
            [rounds[c][1] EXCEPT
                !.pc = "handling",
                !.merged = mergeRecords(server[kindOf(rounds[c][1])],
                                        rounds[c][1].body)])
    /\ UNCHANGED <<replicaVars, isOnline, isSyncing, reloadPending, seenVars,
                   histVars, mergeVars, appVars>>

\* the rest of the handler: writeJSON(FILE, merged), res.json(merged)
syncRouteWrite(c) ==
    /\ mPhase = "server"
    /\ Len(rounds[c]) = 1
    /\ rounds[c][1].pc = "handling"
    /\ server' = [server EXCEPT ![kindOf(rounds[c][1])] = rounds[c][1].merged]
    /\ rounds' = setRound(c, 1,
            [rounds[c][1] EXCEPT !.pc = "resp", !.data = rounds[c][1].merged,
                                 !.merged = <<>>])
    /\ UNCHANGED <<store, queue, keyGen, pending, isOnline, isSyncing,
                   reloadPending, seenVars, histVars, mergeVars, appVars>>

\* both pages have sent the request of their round for the transactions
ServerInit ==
    /\ \E a, b, c \in 0..MaxLen :
          /\ a + b + c <= MaxTotal
          /\ mX \in {x \in [1..a -> MergeRecord] : UniqueIds(x)}
          /\ mY \in {x \in [1..b -> MergeRecord] : UniqueIds(x)}
          /\ mZ \in {x \in [1..c -> MergeRecord] : UniqueIds(x)}
    /\ mPhase = "server"
    /\ mRes = [xy |-> NoRes, again |-> NoRes, xyz |-> NoRes, xzy |-> NoRes]
    /\ server = [transactions |-> mX, categories |-> defaultCategories,
                 recurring |-> <<>>]
    /\ store = [c \in Clients |->
                  [k \in KindSet |->
                      IF k = "transactions"
                      THEN bulkPut(EmptyStore, IF c = "A" THEN mY ELSE mZ)
                      ELSE bulkPut(EmptyStore, server[k])]]
    /\ queue = [c \in Clients |-> <<>>]
    /\ keyGen = [c \in Clients |-> 0]
    /\ pending = [c \in Clients |-> NoPending]
    /\ isOnline = [c \in Clients |-> TRUE]
    /\ isSyncing = [c \in Clients |-> TRUE]
    /\ rounds = [c \in Clients |->
                    <<[NewRound EXCEPT
                          !.pc = "wait",
                          !.body = getAll(store[c]["transactions"]),
                          !.known = {}]>>]
    /\ reloadPending = [c \in Clients |-> FALSE]
    /\ nRequests = [c \in Clients |-> 1]
    /\ notified = [c \in Clients |-> [status |-> "syncing", tick |-> 1]]
    /\ results = [c \in Clients |-> NoResult]
    /\ used = [mutations |-> 0, rounds |-> [c \in Clients |-> 1],
               ignored |-> 0, events |-> 0,
               requests |-> 0]
    /\ doneSet = {}
    /\ full = [c \in Clients |-> {}]
    /\ clock = MaxTime
    /\ AppOff

ServerNext == \E c \in Clients : syncRouteRead(c) \/ syncRouteWrite(c)

SpecServer == ServerInit /\ [][ServerNext]_vars

\* the versions of an id at the start: in the file and in the two bodies
Versions(id) == {r \in Range(mX) \cup Range(mY) \cup Range(mZ) : r.id = id}
BothAnswered == \A c \in Clients : Len(rounds[c]) = 1 /\ rounds[c][1].pc = "resp"

\* C16 (no lost update on the server): once the two concurrent requests for
\* the same kind have been answered, the file holds exactly the ids of the
\* file before and of the two bodies, one record per id, each a version
\* that was held or sent, and one with the greatest updatedAt of the
\* versions of its id (timestamps that parse, as the envelope requires).
C16_NoLostUpdate ==
    (mPhase = "server" /\ BothAnswered) =>
        LET file == server["transactions"]
        IN  /\ UniqueIds(file)
            /\ IdsOf(file) = IdsOf(mX) \cup IdsOf(mY) \cup IdsOf(mZ)
            /\ \A id \in IdsOf(file) :
                  /\ Held(file, id) \in Versions(id)
                  /\ (\A v \in Versions(id) : v.updatedAt \in Instants) =>
                        \A v \in Versions(id) :
                            Held(file, id).updatedAt >= v.updatedAt

\* the two bodies bring different ids the file did not hold, and a newer
\* version of one of them: both requests answered, nothing lost
C16_Witness ==
    /\ mPhase = "server" /\ BothAnswered
    /\ IdsOf(mX) = {"u-1"} /\ IdsOf(mY) = {"u-1"} /\ IdsOf(mZ) = {"cat-1"}
    /\ mX[1].updatedAt = 1 /\ mY[1].updatedAt = 2
    /\ IdsOf(server["transactions"]) = {"u-1", "cat-1"}
    /\ Held(server["transactions"], "u-1") = mY[1]

\* C17 (no physical erasure), as stated, on the records the page itself has
\* put: the id of every journaled record is still in the page's store of its
\* kind, live or tombstoned, except while a merge of that kind is between its
\* clear and its bulkPut.
C17_NoErasure_Original ==
    \A c \in Clients : \A e \in Entries(queue[c]) : \A k \in KindSet :
        (/\ e.type = JournalType[k]
         /\ \A i \in 1..Len(rounds[c]) :
               ~(kindOf(rounds[c][i]) = k /\ rounds[c][i].pc = "bulkPut")) =>
            store[c][k][e.data.id] # Undefined

(***************************************************************************)
(* SpecCrud: the server's routes on the transactions file, called by any   *)
(* authenticated client: POST (create), PUT (update), DELETE and sync.     *)
(* Each handler is synchronous and is one step.                            *)
(***************************************************************************)
\* transactions.findIndex(t => t.id === id): 0 stands for -1
findIndex(file, id) ==
    IF \E n \in 1..Len(file) : file[n].id = id
    THEN CHOOSE n \in 1..Len(file) :
            /\ file[n].id = id
            /\ \A m \in 1..(n - 1) : file[m].id # id
    ELSE 0

\* POST /api/transactions: replace an existing record only by a newer one,
\* push a record whose id is new
postHandler(file, body) ==
    LET existingIndex == findIndex(file, body.id)
    IN  IF existingIndex > 0
        THEN IF jsGreater(getTime(body.updatedAt),
                          getTime(file[existingIndex].updatedAt))
             THEN [file EXCEPT ![existingIndex] = body]
             ELSE file
        ELSE Append(file, body)

\* the fields a PUT body may carry, and the bodies: the fields in has, with
\* the values of val
PutFields == {"updatedAt", "deletedAt", "data"}
PutBody == [has : SUBSET PutFields, val : Record]

\* { ...transactions[index], ...req.body }
spread(existing, body) ==
    [id |-> existing.id,
     updatedAt |-> IF "updatedAt" \in body.has THEN body.val.updatedAt
                   ELSE existing.updatedAt,
     deletedAt |-> IF "deletedAt" \in body.has THEN body.val.deletedAt
                   ELSE existing.deletedAt,
     data |-> IF "data" \in body.has THEN body.val.data ELSE existing.data]

\* PUT /api/transactions/:id: 404 and no write for an absent id
putHandler(file, id, body) ==
    LET index == findIndex(file, id)
    IN  IF index > 0
        THEN [file EXCEPT ![index] = spread(file[index], body)]
        ELSE file

\* DELETE /api/transactions/:id: soft delete stamped by the server's clock
deleteHandler(file, id, now) ==
    LET index == findIndex(file, id)
    IN  IF index > 0
        THEN [file EXCEPT ![index].deletedAt = now, ![index].updatedAt = now]
        ELSE file

\* a request reaches the server and its handler runs
Request(file) ==
    /\ used.requests < MaxRequests
    /\ server' = [server EXCEPT !["transactions"] = file]
    /\ used' = [used EXCEPT !.requests = @ + 1]
    /\ UNCHANGED <<store, queue, keyGen, pending, serviceVars, seenVars,
                   doneSet, full, clock, mergeVars, appVars>>

PostRoute == \E body \in Record : Request(postHandler(server["transactions"], body))

PutRoute ==
    \E id \in Ids : \E body \in PutBody :
        Request(putHandler(server["transactions"], id, body))

\* the answer of DELETE /api/transactions/:id: res.json(...) or status(404)
deleteStatus(file, id) == IF findIndex(file, id) > 0 THEN "200" ELSE "404"

DeleteRoute ==
    \E id \in Ids :
        /\ used.requests < MaxRequests
        /\ server' = [server EXCEPT !["transactions"] =
                          deleteHandler(@, id, clock)]
        /\ reply' = [ret |-> deleteStatus(server["transactions"], id),
                      kind |-> "transactions", id |-> id]
        /\ used' = [used EXCEPT !.requests = @ + 1]
        /\ UNCHANGED <<store, queue, keyGen, pending, serviceVars, seenVars,
                       doneSet, full, clock, mergeVars, recurring,
                       transactions, dbRecurring, dbTransactions, gen, dayIx,
                       utcOffset, fleet, appState>>

SyncRoute ==
    \E body \in SeqsUpTo(Record, 1) :
        Request(syncHandler(server["transactions"], body).file)

CrudInit ==
    /\ SysInit({}, {}, 1)
    /\ AppOff
    /\ mX = <<>> /\ mY = <<>> /\ mZ = <<>>
    /\ mPhase = "crud"
    /\ mRes = [xy |-> NoRes, again |-> NoRes, xyz |-> NoRes, xzy |-> NoRes]

CrudNext == Tick \/ PostRoute \/ PutRoute \/ DeleteRoute \/ SyncRoute

SpecCrud == CrudInit /\ [][CrudNext]_vars

\* C18 (updatedAt never regresses), as stated, on the server replica: no
\* step replaces the record of an id by one whose updatedAt is an earlier
\* instant.
C18_NoRegress_Original ==
    [][\A id \in Ids :
          LET old == Held(server["transactions"], id)
              new == Held(server'["transactions"], id)
          IN  (/\ old # Undefined /\ new # Undefined
               /\ old.updatedAt \in Instants
               /\ new.updatedAt \in Instants) =>
                  new.updatedAt >= old.updatedAt]_vars

(***************************************************************************)
(* SpendTrackApp.processRecurringTransactions and getNextRecurringDate.    *)
(* A date is the string YYYY-MM-DD, modelled as the triple <<y, m, d>>;    *)
(* the strings compare as the triples do.                                  *)
(***************************************************************************)
Frequencies == {"weekly", "biweekly", "monthly", "yearly"}

isLeap(y) == (y % 4 = 0 /\ y % 100 # 0) \/ y % 400 = 0
daysIn(y, m) ==
    IF m = 2 THEN (IF isLeap(y) THEN 29 ELSE 28)
    ELSE IF m \in {4, 6, 9, 11} THEN 30 ELSE 31

\* nextDate <= today on the strings
dateLeq(a, b) ==
    \/ a[1] < b[1]
    \/ a[1] = b[1] /\ a[2] < b[2]
    \/ a[1] = b[1] /\ a[2] = b[2] /\ a[3] <= b[3]

\* what Date makes of year y, month m in 1..13 and a day d that may exceed
\* the month by less than a month
normalize(y, m, d) ==
    LET yy == IF m > 12 THEN y + 1 ELSE y
        mm == IF m > 12 THEN m - 12 ELSE m
    IN  IF d <= daysIn(yy, mm) THEN <<yy, mm, d>>
        ELSE IF mm = 12 THEN <<yy + 1, 1, d - daysIn(yy, mm)>>
        ELSE <<yy, mm + 1, d - daysIn(yy, mm)>>

\* the day before
dayBefore(t) ==
    IF t[3] > 1 THEN <<t[1], t[2], t[3] - 1>>
    ELSE IF t[2] > 1 THEN <<t[1], t[2] - 1, daysIn(t[1], t[2] - 1)>>
    ELSE <<t[1] - 1, 12, 31>>

\* the day after
dayAfter(t) == normalize(t[1], t[2], t[3] + 1)

\* setDate(getDate() + 7), setDate(getDate() + 14), setMonth(getMonth() + 1),
\* setFullYear(getFullYear() + 1), on the local calendar
advance(t, frequency) ==
    CASE frequency = "weekly" -> normalize(t[1], t[2], t[3] + 7)
      [] frequency = "biweekly" -> normalize(t[1], t[2], t[3] + 14)
      [] frequency = "monthly" -> normalize(t[1], t[2] + 1, t[3])
      [] frequency = "yearly" -> normalize(t[1] + 1, t[2], t[3])

\* date.toISOString().split('T')[0] for noon of local day t: the UTC day of
\* the instant, which is 12 - offset hours after the local midnight
toISODate(t, offset) ==
    IF 12 - offset < 0 THEN dayBefore(t)
    ELSE IF 12 - offset >= 24 THEN dayAfter(t)
    ELSE t

\* new Date(dateStr + 'T12:00:00') is noon of that day in local time
getNextRecurringDate(dateStr, frequency, offset) ==
    toISODate(advance(dateStr, frequency), offset)

\* mutant: the watermark is not looked at
firstCandidateFromStart(rec, offset) == rec.startDate

\* rec.lastGenerated ? getNextRecurringDate(rec.lastGenerated, ...) : rec.startDate
firstCandidate(rec, offset) ==
    IF rec.lastGenerated # NoDate
    THEN getNextRecurringDate(rec.lastGenerated, rec.frequency, offset)
    ELSE rec.startDate

\* this.transactions.some(tx => tx.recurringId === rec.id && tx.date === nextDate)
exists(txs, rec, nextDate) ==
    \E n \in 1..Len(txs) : txs[n].recurringId = rec.id /\ txs[n].date = nextDate

\* the days on which the app is opened, the start dates of the rules and the
\* time zones of the browser: US Central and New Zealand in summer
OpenDays == <<<<2024, 1, 15>>, <<2024, 1, 22>>, <<2024, 3, 2>>>>
StartDates == {<<2024, 1, 1>>, <<2024, 1, 31>>}
UtcOffsets == {-6, 13}
RuleIds == <<"rec-1", "rec-2">>

Rule(id) == [id : {id}, startDate : StartDates, frequency : Frequencies,
             lastGenerated : {NoDate}, deletedAt : {NULL, 1}, updatedAt : {1}]

\* getTodayInCentral(), taken as the calendar day it is
getTodayInCentral == OpenDays[dayIx]

\* the steps of the page leave the server, the stores of the three kinds and
\* the SyncService alone
AppOnly ==
    UNCHANGED <<server, store, pending, serviceVars, seenVars, histVars,
                mergeVars, utcOffset, fleet, reply,
                appState>>

\* processRecurringTransactions() is called: const today = ...
StartRun ==
    /\ gen.pc = "idle"
    /\ gen.runs < MaxRuns
    /\ gen' = [gen EXCEPT !.pc = "rule", !.i = 1, !.runs = @ + 1,
                          !.today = getTodayInCentral,
                          !.same = (gen.lastDone = getTodayInCentral)]
    /\ UNCHANGED <<recurring, transactions, dbRecurring, dbTransactions,
                   dayIx, queue, keyGen>>
    /\ AppOnly

\* the for loop is over: the call returns
RunEnd ==
    /\ gen.pc = "rule"
    /\ gen.i > Len(recurring)
    /\ gen' = [gen EXCEPT !.pc = "idle", !.lastDone = gen.today,
                          !.created = <<>>, !.mark = NoDate, !.nextDate = NoDate]
    /\ UNCHANGED <<recurring, transactions, dbRecurring, dbTransactions,
                   dayIx, queue, keyGen>>
    /\ AppOnly

\* mutant: a deleted rule enters the while loop like any other
EnterDeleted ==
    /\ gen.pc = "rule"
    /\ gen.i <= Len(recurring)
    /\ recurring[gen.i].deletedAt # NULL
    /\ gen' = [gen EXCEPT !.pc = "loop",
                          !.nextDate = firstCandidate(recurring[gen.i], utcOffset),
                          !.created = <<>>,
                          !.mark = recurring[gen.i].lastGenerated]
    /\ UNCHANGED <<recurring, transactions, dbRecurring, dbTransactions,
                   dayIx, queue, keyGen>>
    /\ AppOnly

\* if (rec.deletedAt) continue;
SkipDeleted ==
    /\ gen.pc = "rule"
    /\ gen.i <= Len(recurring)
    /\ recurring[gen.i].deletedAt # NULL
    /\ gen' = [gen EXCEPT !.i = @ + 1]
    /\ UNCHANGED <<recurring, transactions, dbRecurring, dbTransactions,
                   dayIx, queue, keyGen>>
    /\ AppOnly

\* let nextDate = ...
RuleBegin ==
    /\ gen.pc = "rule"
    /\ gen.i <= Len(recurring)
    /\ recurring[gen.i].deletedAt = NULL
    /\ gen' = [gen EXCEPT !.pc = "loop",
                          !.nextDate = firstCandidate(recurring[gen.i], utcOffset),
                          !.created = <<>>,
                          !.mark = recurring[gen.i].lastGenerated]
    /\ UNCHANGED <<recurring, transactions, dbRecurring, dbTransactions,
                   dayIx, queue, keyGen>>
    /\ AppOnly

\* the end of an iteration: rec.lastGenerated = nextDate; nextDate = next
iterationEnd(rs, g, offset) ==
    [recurring |-> [rs EXCEPT ![g.i].lastGenerated = g.nextDate],
     gen |-> [g EXCEPT !.pc = "loop",
                       !.nextDate = getNextRecurringDate(g.nextDate,
                                        rs[g.i].frequency, offset)]]

\* an iteration for a date that has its transaction: nothing is awaited
LoopExists ==
    /\ gen.pc = "loop"
    /\ dateLeq(gen.nextDate, gen.today)
    /\ exists(transactions, recurring[gen.i], gen.nextDate)
    /\ recurring' = iterationEnd(recurring, gen, utcOffset).recurring
    /\ gen' = iterationEnd(recurring, gen, utcOffset).gen
    /\ UNCHANGED <<transactions, dbRecurring, dbTransactions, dayIx, queue,
                   keyGen>>
    /\ AppOnly

\* an iteration for a date without transaction, up to the end of
\* await db.saveTransaction(transaction): the put and the journal entry
LoopSave ==
    /\ gen.pc = "loop"
    /\ dateLeq(gen.nextDate, gen.today)
    /\ ~exists(transactions, recurring[gen.i], gen.nextDate)
    /\ LET transaction == [recurringId |-> recurring[gen.i].id,
                           date |-> gen.nextDate]
       IN  /\ dbTransactions' = Append(dbTransactions, transaction)
           /\ queue' = [queue EXCEPT !["A"] =
                  addToSyncQueue(@, keyGen["A"] + 1, "transaction",
                                 transaction, clock)]
    /\ keyGen' = [keyGen EXCEPT !["A"] = @ + 1]
    /\ gen' = [gen EXCEPT !.pc = "saved"]
    /\ UNCHANGED <<recurring, transactions, dbRecurring, dayIx>>
    /\ AppOnly

\* this.transactions.push(transaction) and the end of the iteration
LoopPush ==
    /\ gen.pc = "saved"
    /\ transactions' = Append(transactions,
            [recurringId |-> recurring[gen.i].id, date |-> gen.nextDate])
    /\ recurring' = iterationEnd(recurring, gen, utcOffset).recurring
    /\ gen' = [iterationEnd(recurring, gen, utcOffset).gen EXCEPT
                  !.created = Append(@, gen.nextDate)]
    /\ UNCHANGED <<dbRecurring, dbTransactions, dayIx, queue, keyGen>>
    /\ AppOnly

\* put() on the recurring store, whose key is the id
dbPut(rows, rec) ==
    IF \E n \in 1..Len(rows) : rows[n].id = rec.id
    THEN [n \in 1..Len(rows) |-> IF rows[n].id = rec.id THEN rec ELSE rows[n]]
    ELSE Append(rows, rec)

\* getRecurring(): the rules that are not deleted
getRecurring(rows) == SelectSeq(rows, isLive)

\* the while loop is over: rec.updatedAt = now; await db.saveRecurring(rec)
RuleSave ==
    /\ gen.pc = "loop"
    /\ ~dateLeq(gen.nextDate, gen.today)
    /\ LET rec == [recurring[gen.i] EXCEPT !.updatedAt = clock]
       IN  /\ recurring' = [recurring EXCEPT ![gen.i] = rec]
           /\ dbRecurring' = dbPut(dbRecurring, rec)
           /\ queue' = [queue EXCEPT !["A"] =
                  addToSyncQueue(@, keyGen["A"] + 1, "recurring", rec, clock)]
    /\ keyGen' = [keyGen EXCEPT !["A"] = @ + 1]
    /\ gen' = [gen EXCEPT !.pc = "rule", !.i = @ + 1]
    /\ UNCHANGED <<transactions, dbTransactions, dayIx>>
    /\ AppOnly

\* the page is reloaded while the generator runs: the script is gone, the
\* new page loads this.recurring and this.transactions from IndexedDB
AppReload ==
    /\ gen.pc # "idle"
    /\ gen.reloads < MaxReloads
    /\ recurring' = getRecurring(dbRecurring)
    /\ transactions' = dbTransactions
    /\ gen' = [gen EXCEPT !.pc = "idle", !.reloads = @ + 1, !.i = 0,
                          !.nextDate = NoDate, !.today = NoDate,
                          !.created = <<>>, !.mark = NoDate]
    /\ UNCHANGED <<dbRecurring, dbTransactions, dayIx, queue, keyGen>>
    /\ AppOnly

\* the app is next opened on a later day
DayPasses ==
    /\ gen.pc = "idle"
    /\ dayIx < Len(OpenDays)
    /\ dayIx' = dayIx + 1
    /\ UNCHANGED <<recurring, transactions, dbRecurring, dbTransactions, gen,
                   queue, keyGen>>
    /\ AppOnly

RecurInit ==
    /\ SysInit({}, {"A"}, 1)
    /\ mX = <<>> /\ mY = <<>> /\ mZ = <<>>
    /\ mPhase = "app"
    /\ mRes = [xy |-> NoRes, again |-> NoRes, xyz |-> NoRes, xzy |-> NoRes]
    /\ \E n \in 1..Len(RuleIds) :
          recurring \in {rs \in [1..n -> UNION {Rule(RuleIds[j]) : j \in 1..n}] :
                            \A j \in 1..n : rs[j].id = RuleIds[j]}
    /\ dbRecurring = recurring
    /\ transactions = <<>> /\ dbTransactions = <<>>
    /\ gen = NoGen
    /\ dayIx = 1
    /\ utcOffset \in UtcOffsets
    /\ appState = AppIdle
    /\ fleet = FleetOff
    /\ reply = NoReply

RecurNext ==
    \/ StartRun \/ RunEnd \/ SkipDeleted \/ RuleBegin \/ LoopExists
    \/ LoopSave \/ LoopPush \/ RuleSave \/ AppReload \/ DayPasses

SpecRecur == RecurInit /\ [][RecurNext]_vars

\* the dates c, c+p, c+2p, ... that are <= today, on the calendar
RECURSIVE DueDates(_, _, _)
DueDates(c, frequency, today) ==
    IF dateLeq(c, today)
    THEN <<c>> \o DueDates(advance(c, frequency), frequency, today)
    ELSE <<>>

\* the while loop of the rule at hand is over
LoopOver == gen.pc = "loop" /\ ~dateLeq(gen.nextDate, gen.today)

\* the dates the rule at hand is due for: from startDate when it had no
\* watermark, from one period after the watermark otherwise
DueNow ==
    LET rec == recurring[gen.i]
    IN  DueDates(IF gen.mark = NoDate THEN rec.startDate
                 ELSE advance(gen.mark, rec.frequency),
                 rec.frequency, gen.today)

\* C19 (generated dates), as stated: when the loop of a live rule is over,
\* the run has created transactions exactly for the dates c, c+p, c+2p, ...
\* that are <= today, and lastGenerated is the last of them.
C19_GeneratedDates_Original ==
    LoopOver =>
        /\ gen.created = DueNow
        /\ recurring[gen.i].lastGenerated =
              (IF DueNow = <<>> THEN gen.mark ELSE DueNow[Len(DueNow)])

\* every rule of rs has the lastGenerated it has in before
SameWatermarks(before, rs) ==
    \A n \in 1..Len(rs) : \E m \in 1..Len(before) :
        /\ before[m].id = rs[n].id
        /\ before[m].lastGenerated = rs[n].lastGenerated

\* C20 (recurrence idempotence): no step of a run started with the same today
\* as the last completed run creates a transaction, in this.transactions or
\* in IndexedDB, or changes the lastGenerated of a rule, in this.recurring or
\* in IndexedDB.
C20_Idempotent ==
    [][(gen.pc # "idle" /\ gen.same) =>
          /\ transactions' = transactions
          /\ dbTransactions' = dbTransactions
          /\ SameWatermarks(recurring, recurring')
          /\ SameWatermarks(dbRecurring, dbRecurring')
          /\ Len(dbRecurring') = Len(dbRecurring)]_vars

\* a second run on the day of a completed run that created transactions has
\* gone through every rule
C20_Witness ==
    /\ gen.pc = "idle" /\ gen.same /\ gen.runs >= 2
    /\ gen.lastDone = OpenDays[2]
    /\ Len(recurring) = 2 /\ gen.i = 3
    /\ recurring[1].lastGenerated = OpenDays[2]
    /\ recurring[2].lastGenerated # NoDate
    /\ Len(transactions) >= 4

\* the journal entries of the page about rule id: the saves of the rule and
\* the saves of its transactions
JournalOf(id) ==
    {e \in Entries(queue["A"]) :
        \/ e.type = "recurring" /\ e.data.id = id
        \/ e.type = "transaction" /\ e.data.recurringId = id}

MaxOpens == 2
MaxFleetSyncs == 3
MaxDeletes == 1

\* generateUUID(): Math.random() gives an id no earlier call gave; the n-th
\* id made on device c
generateUUID(c, n) == <<c, n>>

\* the while loop of processRecurringTransactions for rule rec, from nextDate:
\* st.memory is this.transactions, st.db the transactions store, st.rec the
\* rule, st.made the number of ids made on the device
RECURSIVE whileLoop(_, _, _, _)
whileLoop(st, nextDate, today, ctx) ==
    IF ~dateLeq(nextDate, today) THEN st
    ELSE LET transaction == [id |-> generateUUID(ctx.c, st.made + 1),
                             recurringId |-> st.rec.id,
                             date |-> nextDate,
                             updatedAt |-> ctx.now,
                             deletedAt |-> NULL]
             after ==
                 IF exists(st.memory, st.rec, nextDate)
                 THEN st
                 ELSE [st EXCEPT !.db = mapSet(@, transaction),
                                 !.memory = Append(@, transaction),
                                 !.made = @ + 1]
         IN  whileLoop([after EXCEPT !.rec.lastGenerated = nextDate],
                       getNextRecurringDate(nextDate, st.rec.frequency,
                                            ctx.offset),
                       today, ctx)

\* the for loop of processRecurringTransactions over this.recurring, from
\* the n-th rule on: app.recurring is the store of the rules
RECURSIVE forRecurring(_, _, _, _)
forRecurring(app, n, today, ctx) ==
    IF n > Len(app.thisRecurring) THEN app
    ELSE LET rec == app.thisRecurring[n]
         IN  IF rec.deletedAt # NULL
             THEN forRecurring(app, n + 1, today, ctx)
             ELSE LET st == whileLoop([memory |-> app.thisTransactions,
                                       db |-> app.transactions,
                                       rec |-> rec, made |-> app.made],
                                      firstCandidate(rec, ctx.offset),
                                      today, ctx)
                      saved == [st.rec EXCEPT !.updatedAt = ctx.now]
                  IN  forRecurring(
                          [thisTransactions |-> st.memory,
                           thisRecurring |->
                               [app.thisRecurring EXCEPT ![n] = saved],
                           transactions |-> st.db,
                           recurring |-> dbPut(app.recurring, saved),
                           made |-> st.made],
                          n + 1, today, ctx)

\* fetchInitialData(): online, the server's files are merged into the stores
\* and the live merged records come back; offline, the live local records
fetchInitialData(db, files, online) ==
    IF online
    THEN [transactions |-> clientMerge(db.transactions, files.transactions),
          recurring |-> clientMerge(db.recurring, files.recurring)]
    ELSE [transactions |-> [persist |-> db.transactions,
                            ret |-> liveOnly(db.transactions)],
          recurring |-> [persist |-> db.recurring,
                         ret |-> getRecurring(db.recurring)]]

\* loadApp() on device c: loadData(), then processRecurringTransactions()
loadApp(c) ==
    LET data == fetchInitialData(fleet.db[c], server, isOnline[c])
    IN  forRecurring([thisTransactions |-> data.transactions.ret,
                      thisRecurring |-> data.recurring.ret,
                      transactions |-> data.transactions.persist,
                      recurring |-> data.recurring.persist,
                      made |-> fleet.made[c]],
                     1, getTodayInCentral,
                     [c |-> c, now |-> clock, offset |-> utcOffset])

\* the steps of the devices leave the page of SpecRecur and the SyncService
\* bookkeeping alone
FleetOnly ==
    UNCHANGED <<store, queue, keyGen, pending, isSyncing, rounds,
                reloadPending, seenVars, histVars, mergeVars, recurring,
                transactions, dbRecurring, dbTransactions, gen, dayIx,
                utcOffset, reply, appState>>

\* the app is opened on device c
Open(c) ==
    /\ fleet.opens[c] < MaxOpens
    /\ LET app == loadApp(c)
       IN  fleet' = [fleet EXCEPT
                        !.db[c] = [transactions |-> app.transactions,
                                   recurring |-> app.recurring],
                        !.made[c] = app.made,
                        !.opens[c] = @ + 1]
    /\ UNCHANGED <<server, isOnline>>
    /\ FleetOnly

\* handleDeleteTransaction(id) on device c: db.deleteTransaction(id)
DeleteTx(c) ==
    /\ fleet.deletes < MaxDeletes
    /\ \E n \in 1..Len(fleet.db[c].transactions) :
          /\ isLive(fleet.db[c].transactions[n])
          /\ fleet' = [fleet EXCEPT
                          !.db[c].transactions[n].deletedAt = clock,
                          !.db[c].transactions[n].updatedAt = clock,
                          !.deletes = @ + 1]
    /\ UNCHANGED <<server, isOnline>>
    /\ FleetOnly

\* resetStats(): the counts a round starts with
resetStats ==
    [transactions |-> [added |-> 0, updated |-> 0, conflicted |-> 0],
     categories |-> [added |-> 0, updated |-> 0],
     recurring |-> [added |-> 0, updated |-> 0]]

\* const stats = data.stats || { added: 0, updated: 0, ... }: data is the
\* parsed body of the answer; an array has no stats property
statsOf(data, kind) ==
    IF DOMAIN data \subseteq Nat THEN resetStats[kind] ELSE data.stats

\* a round of device c whose requests are all answered 200: the transactions
\* and the rules are sent, merged by the server and merged into the stores;
\* fleet.result is the result the listeners get: its device and its stats
FleetSync(c) ==
    /\ isOnline[c]
    /\ fleet.syncs < MaxFleetSyncs
    /\ LET tx == syncHandler(server.transactions, fleet.db[c].transactions)
           rec == syncHandler(server.recurring, fleet.db[c].recurring)
       IN  /\ server' = [server EXCEPT !.transactions = tx.file,
                                       !.recurring = rec.file]
           /\ fleet' = [fleet EXCEPT
                  !.db[c] = [transactions |->
                                 clientMerge(fleet.db[c].transactions,
                                             tx.json).persist,
                             recurring |->
                                 clientMerge(fleet.db[c].recurring,
                                             rec.json).persist],
                  !.syncs = @ + 1,
                  !.result =
                      <<[by |-> c, success |-> TRUE,
                         stats |->
                            [resetStats EXCEPT
                                !.transactions =
                                    statsOf(tx.json, "transactions"),
                                !.categories =
                                    statsOf(syncHandler(server.categories,
                                                server.categories).json,
                                            "categories"),
                                !.recurring =
                                    statsOf(rec.json, "recurring")]]>>]
    /\ UNCHANGED isOnline
    /\ FleetOnly

\* device c gains or loses its connection
FleetNetwork(c) ==
    /\ isOnline' = [isOnline EXCEPT ![c] = ~@]
    /\ UNCHANGED <<server, fleet>>
    /\ FleetOnly

\* both devices and the server hold the same live rule, whose start date has
\* come; nothing was generated yet
FleetInit ==
    /\ \E rule \in {r \in Rule(RuleIds[1]) :
                        /\ r.deletedAt = NULL
                        /\ dateLeq(r.startDate, OpenDays[1])} :
          /\ server = [transactions |-> <<>>, categories |-> defaultCategories,
                       recurring |-> <<rule>>]
          /\ fleet = [db |-> [c \in Clients |->
                                [transactions |-> <<>>,
                                 recurring |-> <<rule>>]],
                      made |-> [c \in Clients |-> 0],
                      opens |-> [c \in Clients |-> 0],
                      syncs |-> 0, deletes |-> 0, result |-> <<>>]
    /\ store = [c \in Clients |-> [k \in KindSet |-> EmptyStore]]
    /\ queue = [c \in Clients |-> <<>>]
    /\ keyGen = [c \in Clients |-> 0]
    /\ pending = [c \in Clients |-> NoPending]
    /\ isOnline \in [Clients -> BOOLEAN]
    /\ isSyncing = [c \in Clients |-> FALSE]
    /\ rounds = [c \in Clients |-> <<>>]
    /\ reloadPending = [c \in Clients |-> FALSE]
    /\ nRequests = [c \in Clients |-> 0]
    /\ notified = [c \in Clients |-> [status |-> "none", tick |-> 0]]
    /\ results = [c \in Clients |-> NoResult]
    /\ used = [mutations |-> 0, rounds |-> [c \in Clients |-> 0],
               ignored |-> 0, events |-> 0, requests |-> 0]
    /\ doneSet = {}
    /\ full = [c \in Clients |-> {}]
    /\ clock = 1
    /\ mX = <<>> /\ mY = <<>> /\ mZ = <<>>
    /\ mPhase = "fleet"
    /\ mRes = [xy |-> NoRes, again |-> NoRes, xyz |-> NoRes, xzy |-> NoRes]
    /\ recurring = <<>> /\ dbRecurring = <<>>
    /\ transactions = <<>> /\ dbTransactions = <<>>
    /\ gen = NoGen
    /\ dayIx = 1
    /\ utcOffset = -6
    /\ appState = AppIdle
    /\ reply = NoReply

FleetNext ==
    \/ Tick
    \/ \E c \in Clients :
          Open(c) \/ DeleteTx(c) \/ FleetSync(c) \/ FleetNetwork(c)

SpecFleet == FleetInit /\ [][FleetNext]_vars

\* the transaction records held anywhere: by a device or by the server
HeldAnywhere ==
    Range(server.transactions)
        \cup UNION {Range(fleet.db[c].transactions) : c \in Clients}

\* records r and t are for the same rule and date
SamePair(r, t) == r.recurringId = t.recurringId /\ r.date = t.date

\* C21 (deletion of a generated transaction is final), as stated: no step
\* gives a device a live transaction under an id nobody held, for a rule and
\* date for which a deleted transaction is held by a device or the server.
C21_DeletionFinal_Original ==
    [][\A c \in Clients :
          \A t \in Range(fleet'.db[c].transactions) :
              (t.deletedAt = NULL /\ t.id \notin {r.id : r \in HeldAnywhere})
                  => ~\E r \in HeldAnywhere :
                          r.deletedAt # NULL /\ SamePair(r, t)]_vars

\* both devices have generated transactions and, after their rounds, hold
\* the records the server holds
BothSynced ==
    /\ \A c \in Clients :
          /\ fleet.made[c] > 0
          /\ Range(fleet.db[c].transactions) = Range(server.transactions)

\* C22 (deterministic generated ids), as stated: once two devices that ran
\* the generator independently have synced, each holds exactly one
\* transaction record for a rule and date.
C22_OneRecordPerDate_Original ==
    BothSynced =>
        \A c \in Clients :
            \A r, t \in Range(fleet.db[c].transactions) :
                SamePair(r, t) => r = t

\* the place of a kind in the order in which sync() exchanges the kinds
PlaceOf(kind) == CHOOSE n \in 1..Len(Kinds) : Kinds[n] = kind

\* the round has sent the request of its current kind
RequestSent(ctx) == ctx.pc \in {"wait", "resp", "clear", "bulkPut"}

\* C24 (kind order within a round), as stated: a round that has sent its
\* transactions request has had its categories exchange before, and a round
\* that has sent its recurring request has had its transactions exchange
\* before.
C24_KindOrder_Original ==
    \A c \in Clients : \A i \in 1..Len(rounds[c]) :
        RequestSent(rounds[c][i]) =>
            /\ kindOf(rounds[c][i]) = "transactions" =>
                  PlaceOf("categories") < rounds[c][i].k
            /\ kindOf(rounds[c][i]) = "recurring" =>
                  PlaceOf("transactions") < rounds[c][i].k

\* the number of records of sent whose id the server's list does not hold
NewToServer(serverRecords, sent) ==
    Cardinality({n \in 1..Len(sent) : ~mapHas(serverRecords, sent[n].id)})

\* the number of records of sent whose id the server's list holds with a
\* strictly older updatedAt
NewerThanServer(serverRecords, sent) ==
    Cardinality({n \in 1..Len(sent) :
        /\ mapHas(serverRecords, sent[n].id)
        /\ mapGet(serverRecords, sent[n].id).updatedAt < sent[n].updatedAt})

\* C25 (sync counts), as stated: the result of a round answered 200
\* throughout has, for the transactions and for the rules, added = the number
\* of records sent whose id the server did not hold before the round and
\* updated = the number sent whose id the server held with a strictly older
\* updatedAt.
C25_SyncCounts_Original ==
    [][fleet'.syncs = fleet.syncs + 1 =>
          LET c == fleet'.result[1].by
              stats == fleet'.result[1].stats
          IN  /\ stats.transactions.added =
                    NewToServer(server.transactions, fleet.db[c].transactions)
              /\ stats.transactions.updated =
                    NewerThanServer(server.transactions,
                                    fleet.db[c].transactions)
              /\ stats.recurring.added =
                    NewToServer(server.recurring, fleet.db[c].recurring)
              /\ stats.recurring.updated =
                    NewerThanServer(server.recurring,
                                    fleet.db[c].recurring)]_vars

C26_ServerDelete ==
    [][(reply' # reply /\ reply'.ret \in {"404", "200"}) =>
          LET file == server["transactions"]
              index == findIndex(file, reply'.id)
          IN  IF index = 0
              THEN reply'.ret = "404" /\ server' = server
              ELSE /\ reply'.ret = "200"
                   /\ server'["transactions"] =
                         [file EXCEPT ![index] =
                             [file[index] EXCEPT !.deletedAt = clock,
                                                 !.updatedAt = clock]]]_vars

(***************************************************************************)
(* SpecEdit: the add and edit forms of the page write transactions through *)
(* Database.saveTransaction.  A transaction carries id, person, amount,    *)
(* createdAt, updatedAt and deletedAt; this.transactions is transactions,  *)
(* the transactions store is dbTransactions, the journal is queue["A"].    *)
(* The text of the amount field is a sequence of keys.                     *)
(***************************************************************************)
MaxText == 2
MaxSubmits == 2

Keys == {"-", "0", "7", "."}
DigitValue == [k \in {"0", "7"} |-> IF k = "0" THEN 0 ELSE 7]
Persons == {"James", "Samantha"}

\* the digits text starts with, as a number; seen is what was read so far
RECURSIVE leadingDigits(_, _)
leadingDigits(text, seen) ==
    IF text = <<>> \/ Head(text) \notin DOMAIN DigitValue THEN seen
    ELSE leadingDigits(Tail(text), 10 * seen + DigitValue[Head(text)])

\* parseInt(text): an optional sign, then the leading digits; NaN when no
\* digit follows
parseInt(text) ==
    LET unsigned == IF text # <<>> /\ Head(text) = "-" THEN Tail(text)
                    ELSE text
    IN  IF unsigned = <<>> \/ Head(unsigned) \notin DOMAIN DigitValue
        THEN NaN
        ELSE IF unsigned = text THEN leadingDigits(unsigned, 0)
             ELSE 0 - leadingDigits(unsigned, 0)

\* typeof amount === 'number' && amount > 0 && Number.isInteger(amount)
isValidAmount(amount) == amount # NaN /\ amount > 0

\* a record that passes validation; ids are those of generateUUID, and <<>>
\* is the empty id
isValidRecord(r) ==
    /\ r.id # <<>>
    /\ r.createdAt <= r.updatedAt
    /\ isValidAmount(r.amount)
    /\ r.person \in Persons

\* Database.saveTransaction(transaction): put, then addToSyncQueue
saveTransaction(transaction) ==
    /\ dbTransactions' = dbPut(dbTransactions, transaction)
    /\ queue' = [queue EXCEPT !["A"] =
            addToSyncQueue(@, keyGen["A"] + 1, "transaction", transaction,
                           clock)]
    /\ keyGen' = [keyGen EXCEPT !["A"] = @ + 1]

\* the forms leave everything else alone
EditOnly ==
    UNCHANGED <<server, store, pending, serviceVars, seenVars, doneSet, full,
                clock, mergeVars, recurring, dbRecurring, gen, dayIx,
                utcOffset, fleet, reply, appState>>

\* handleAddTransaction: if (!amount || amount < 1) the form is refused
handleAddTransaction(text, selectedPerson) ==
    /\ used.mutations < MaxSubmits
    /\ used' = [used EXCEPT !.mutations = @ + 1]
    /\ LET amount == parseInt(text)
           transaction == [id |-> generateUUID("A", keyGen["A"] + 1),
                           person |-> selectedPerson, amount |-> amount,
                           createdAt |-> clock, updatedAt |-> clock,
                           deletedAt |-> NULL]
       IN  IF amount = NaN \/ amount = 0 \/ amount < 1
           THEN UNCHANGED <<transactions, dbTransactions, queue, keyGen>>
           ELSE /\ saveTransaction(transaction)
                /\ transactions' = Append(transactions, transaction)
    /\ EditOnly

\* handleEditTransaction on the n-th transaction of this.transactions
handleEditTransaction(n, text, activePerson) ==
    /\ used.mutations < MaxSubmits
    /\ used' = [used EXCEPT !.mutations = @ + 1]
    /\ n \in 1..Len(transactions)
    /\ LET tx == [transactions[n] EXCEPT !.person = activePerson,
                                         !.amount = parseInt(text),
                                         !.updatedAt = clock]
       IN  /\ transactions' = [transactions EXCEPT ![n] = tx]
           /\ saveTransaction(tx)
    /\ EditOnly

\* the page holds one transaction, added earlier
EditInit ==
    /\ SysInit({}, {"A"}, 1)
    /\ mX = <<>> /\ mY = <<>> /\ mZ = <<>>
    /\ mPhase = "edit"
    /\ mRes = [xy |-> NoRes, again |-> NoRes, xyz |-> NoRes, xzy |-> NoRes]
    /\ \E person \in Persons :
          transactions = <<[id |-> generateUUID("A", 0),
                            person |-> person, amount |-> 7,
                            createdAt |-> 1, updatedAt |-> 1,
                            deletedAt |-> NULL]>>
    /\ dbTransactions = transactions
    /\ recurring = <<>> /\ dbRecurring = <<>>
    /\ gen = NoGen
    /\ dayIx = 1
    /\ utcOffset = -6
    /\ appState = AppIdle
    /\ fleet = FleetOff
    /\ reply = NoReply

EditNext ==
    \/ Tick
    \/ \E text \in SeqsUpTo(Keys, MaxText) : \E person \in Persons :
          \/ handleAddTransaction(text, person)
          \/ \E n \in 1..2 : handleEditTransaction(n, text, person)

SpecEdit == EditInit /\ [][EditNext]_vars

\* C27 (validated writes), as stated: the transactions store never holds a
\* record that violates validation (empty id, createdAt later than updatedAt,
\* amount not a positive integer, person not one of the two permitted).
C27_ValidatedWrites_Original ==
    \A n \in 1..Len(dbTransactions) : isValidRecord(dbTransactions[n])

(***************************************************************************)
(* SpecCreated: the merge over records that carry createdAt.  Two versions *)
(* of an id may differ in createdAt: server.js stamps the default          *)
(* categories cat-1.. with new Date() whenever it creates the categories   *)
(* file, and the POST and import routes store the createdAt they are sent. *)
(***************************************************************************)
CreatedRecord ==
    {r \in [id : Ids, createdAt : Instants, updatedAt : Instants,
            deletedAt : {NULL}, data : Payloads] :
        r.createdAt <= r.updatedAt /\ r.data = "p"}

CreatedInit ==
    /\ mX \in {x \in SeqsUpTo(CreatedRecord, MaxLen) : UniqueIds(x)}
    /\ mY \in {y \in SeqsUpTo(CreatedRecord, MaxLen) : UniqueIds(y)}
    /\ mZ = <<>>
    /\ mPhase = "input"
    /\ mRes = [xy |-> NoRes, again |-> NoRes, xyz |-> NoRes, xzy |-> NoRes]
    /\ SysInit({}, {}, 1)
    /\ AppOff

CreatedNext == ApplyMerge \/ ApplyAgain

SpecCreated == CreatedInit /\ [][CreatedNext]_vars

\* C28 (createdAt immutable under merge), as stated: for every id the
\* baseline holds, the merged list of either implementation holds the
\* createdAt the baseline held, whichever side has the later updatedAt.
C28_CreatedAtImmutable_Original ==
    mPhase # "input" =>
        \A id \in IdsOf(mX) : \A side \in Sides :
            Held(mRes.xy[side], id).createdAt = Held(mX, id).createdAt

\* the step starts a round of page c, and the step ends one in sync()'s
\* finally block
RoundStarts(c) == Len(rounds'[c]) = Len(rounds[c]) + 1
RoundEnds(c) == Len(rounds'[c]) < Len(rounds[c]) /\ ~IsReload(c)

\* C29 (status notifications): the step that starts a round leaves the
\* listeners with 'syncing' and the round with no request sent; the step that
\* ends a round, with a success or a failure result, notifies once, 'synced'
\* if the page is online and 'offline' otherwise, never 'syncing'; and
\* getStatus is 'offline' whenever the page is offline, round in flight or
\* not.
C29_StatusNotified ==
    [][\A c \in Clients :
          /\ RoundStarts(c) =>
                /\ notified'[c].status = "syncing"
                /\ rounds'[c][Len(rounds'[c])].pc = "read"
                /\ nRequests'[c] = 0
          /\ RoundEnds(c) =>
                /\ notified'[c].tick = 1 - notified[c].tick
                /\ notified'[c].status =
                      (IF isOnline[c] THEN "synced" ELSE "offline")
                /\ notified'[c].status # "syncing"
                /\ results'[c].count = results[c].count + 1
          /\ ~isOnline'[c] =>
                getStatus(isOnline'[c], isSyncing'[c]) = "offline"]_vars

\* a round that started online has ended after the page went offline, and
\* the listeners were told 'offline'
C29_Witness ==
    /\ ~isOnline["A"] /\ ~isSyncing["A"]
    /\ used.events = 1 /\ used.rounds["A"] = 1
    /\ rounds["A"] = <<>>
    /\ results["A"].count = 1
    /\ notified["A"] = [status |-> "offline", tick |-> 1]

(***************************************************************************)
(* SpecLive: the SyncService of page A, with every await of a round        *)
(* eventually returning or throwing:                                       *)
(* the store operations return (SyncRead, MergeRead, MergeClear,           *)
(* MergeBulkPut, SyncClearQueue), the fetch of a request is answered or    *)
(* rejects (ServerSync, Respond401, Respond500, FetchReject), and the code *)
(* after the last await runs (SyncFinish).                                 *)
(***************************************************************************)
RoundStep(c) ==
    \E i \in Slots :
        \/ SyncRead(c, i) \/ ServerSync(c, i) \/ Respond401(c, i)
        \/ Respond500(c, i)
        \/ \E processed \in BOOLEAN : FetchReject(c, i, processed)
        \/ MergeRead(c, i) \/ MergeClear(c, i) \/ MergeBulkPut(c, i)
        \/ SyncClearQueue(c, i) \/ SyncFinish(c, i)

LiveNext ==
    \/ Tick
    \/ \E c \in {"A"} :
          \/ SyncCall(c) \/ OnlineEvent(c) \/ OfflineEvent(c)
          \/ RoundStep(c) \/ PageReload(c)

SpecLive == Init /\ [][LiveNext]_vars /\ WF_vars(RoundStep("A"))

\* C30 (every round terminates with exactly one result): a page that is
\* syncing eventually is not; while it stays syncing no result is notified;
\* it stops syncing only in the step that ends the round, which notifies the
\* one result of the round, a success or a failure, or when the page is
\* reloaded.
C30_RoundTerminates ==
    /\ isSyncing["A"] ~> ~isSyncing["A"]
    /\ [][\A c \in Clients :
             /\ (isSyncing[c] /\ isSyncing'[c]) => results'[c] = results[c]
             /\ (isSyncing[c] /\ ~isSyncing'[c]) =>
                   \/ IsReload(c)
                   \/ /\ RoundEnds(c)
                      /\ results[c].count = 0
                      /\ results'[c].count = 1
                      /\ results'[c].success \in BOOLEAN
             /\ RoundEnds(c) => ~isSyncing'[c]]_vars

\* a round has ended with a failure result at its second request, and the
\* page is idle again
C30_Witness ==
    /\ ~isSyncing["A"] /\ rounds["A"] = <<>>
    /\ used.rounds["A"] = 1
    /\ results["A"].count = 1
    /\ ~results["A"].success
    /\ results["A"].failedAt = 2

(***************************************************************************)
(* SpecAuto: page A online, every exchange answered with 200, and the      *)
(* handlers of SpendTrackApp that change a record: each awaits the save or *)
(* the delete of Database and then calls syncService.sync().  No timer     *)
(* and no other code of the page calls sync(): the remaining callers are   *)
(* loadApp, the 'online' listener and the Sync Now button.                 *)
(***************************************************************************)
\* syncService.sync() as the last statement of a handler
syncFromHandler(c) ==
    IF syncReturnsAtOnce(c, isOnline[c])
    THEN UNCHANGED <<isSyncing, notified, rounds, nRequests, results, used>>
    ELSE /\ used' = [used EXCEPT !.rounds[c] = @ + 1]
         /\ isSyncing' = [isSyncing EXCEPT ![c] = TRUE]
         /\ notified' = [notified EXCEPT ![c] =
                 notifyStatusChange(@, getStatus(isOnline[c], TRUE))]
         /\ rounds' = [rounds EXCEPT ![c] = Append(@, NewRound)]
         /\ nRequests' = [nRequests EXCEPT ![c] = 0]
         /\ results' = [results EXCEPT ![c] = NoResult]

\* the handler deletes the record whose id the edit modal or the list shows
handlerDelete(c, k, id) ==
    /\ store[c][k][id] # Undefined
    /\ DeleteCall(c, k, id)

\* await db.save<Kind>(...) or await db.delete<Kind>(id) returns once the
\* journal entry is written; the handler renders and calls sync()
handlerResume(c) ==
    /\ pending[c].op = "journal"
    /\ queue' = [queue EXCEPT ![c] =
                    addToSyncQueue(@, keyGen[c] + 1,
                                   JournalType[pending[c].kind],
                                   pending[c].rec, clock)]
    /\ keyGen' = [keyGen EXCEPT ![c] = @ + 1]
    /\ pending' = [pending EXCEPT ![c] = NoPending]
    /\ syncFromHandler(c)
    /\ UNCHANGED <<server, store, isOnline, reloadPending, doneSet, full,
                   clock, mergeVars, appVars>>

\* the steps of a round whose requests are all answered with 200
okRoundStep(c) ==
    \E i \in Slots :
        \/ SyncRead(c, i) \/ ServerSync(c, i)
        \/ MergeRead(c, i) \/ MergeClear(c, i) \/ MergeBulkPut(c, i)
        \/ SyncClearQueue(c, i) \/ SyncFinish(c, i)

AutoInit == Init /\ isOnline["A"]

AutoNext ==
    \/ Tick
    \/ \E c \in {"A"} :
          \/ \E k \in KindSet : \E r \in SaveRecord(k) : SaveCall(c, k, r)
          \/ \E k \in KindSet : \E id \in IdsOfKind[k] : handlerDelete(c, k, id)
          \/ DeletePut(c)
          \/ handlerResume(c)
          \/ SyncCall(c)
          \/ okRoundStep(c)

\* every await of the page returns: the store operations, the fetches, and
\* with them the code that follows them; the user owes the page nothing
SpecAuto ==
    /\ AutoInit /\ [][AutoNext]_vars
    /\ WF_vars(okRoundStep("A"))
    /\ WF_vars(handlerResume("A"))
    /\ WF_vars(DeletePut("A"))

\* page A holds a version of id that the server would take if it were sent:
\* the server has no record of that id, or an older one
Ahead(k, id) ==
    /\ store["A"][k][id] # Undefined
    /\ \/ id \notin IdsOf(server[k])
       \/ jsGreater(getTime(store["A"][k][id].updatedAt),
                    getTime(Held(server[k], id).updatedAt))

\* C31 (automatic background sync), as stated: a version page A holds and
\* the server would take does not stay unsent; with the page online and
\* every request answered with 200, some round carries it to the server.
C31_AutoSync_Original ==
    \A k \in KindSet : \A id \in IdsOfKind[k] :
        Ahead(k, id) ~> ~Ahead(k, id)

\* the step is a call of sync() that returned at once
SyncIgnored == used'.ignored = used.ignored + 1

\* C32 (syncs when online): while page c is offline no round of c starts,
\* and a call of sync() made offline changes nothing of the service and
\* sends no request; the step in which c comes online with no round in
\* flight starts a round, which stands before its first request.
C32_SyncsWhenOnline ==
    [][\A c \in Clients :
          /\ (~isOnline[c] /\ ~isOnline'[c]) => ~RoundStarts(c)
          /\ (~isOnline[c] /\ SyncIgnored) =>
                /\ rounds'[c] = rounds[c]
                /\ nRequests'[c] = nRequests[c]
                /\ isSyncing'[c] = isSyncing[c]
                /\ server' = server
          /\ (~isOnline[c] /\ isOnline'[c] /\ ~isSyncing[c]) =>
                /\ RoundStarts(c)
                /\ isSyncing'[c]
                /\ rounds'[c][Len(rounds'[c])] = NewRound
                /\ notified'[c].status = "syncing"]_vars

\* the page was offline when sync() was called, which did nothing; then the
\* 'online' event started the first round of the page
C32_Witness ==
    /\ used.ignored = 1 /\ used.events = 1
    /\ used.rounds["A"] = 1
    /\ isOnline["A"] /\ isSyncing["A"]
    /\ rounds["A"] = <<NewRound>>
    /\ nRequests["A"] = 0

(***************************************************************************)
(* SpecCat: the category list of the settings view.  this.categories is    *)
(* appState.categories, the categories store appState.db, the journal      *)
(* queue["A"]; appState.saving holds the calls of db.saveCategory that     *)
(* have not returned yet.  A name is a sequence of keys; the page is       *)
(* offline, so that the sync() call that ends each handler returns at once.*)
(***************************************************************************)
MaxName == 2
MaxCatSubmits == 3

NameKeys == {"G", "g", " "}
NameTexts == SeqsUpTo(NameKeys, MaxName)

\* String.prototype.toLowerCase
toLowerCase(text) ==
    [i \in 1..Len(text) |-> IF text[i] = "G" THEN "g" ELSE text[i]]

\* String.prototype.trim
RECURSIVE trimStart(_)
trimStart(text) ==
    IF text # <<>> /\ Head(text) = " " THEN trimStart(Tail(text)) ELSE text
RECURSIVE trimEnd(_)
trimEnd(text) ==
    IF text # <<>> /\ text[Len(text)] = " "
    THEN trimEnd(SubSeq(text, 1, Len(text) - 1)) ELSE text
trim(text) == trimEnd(trimStart(text))

\* this.categories.some(c => c.name.toLowerCase() === name.toLowerCase())
nameExists(categories, name) ==
    \E i \in 1..Len(categories) :
        toLowerCase(categories[i].name) = toLowerCase(name)

\* the handlers of the category list leave everything else alone
CatOnly ==
    UNCHANGED <<server, store, pending, serviceVars, seenVars, doneSet, full,
                clock, mergeVars, recurring, transactions, dbRecurring,
                dbTransactions, gen, dayIx, utcOffset, fleet, reply>>

\* addCategoryFromSettings, up to await db.saveCategory(category): an empty
\* name or one that exists ends the handler
addCategoryFromSettings(text) ==
    /\ appState.submits < MaxCatSubmits
    /\ LET name == trim(text)
           category == [id |-> generateUUID("A", appState.submits + 1),
                        name |-> name, updatedAt |-> clock,
                        deletedAt |-> NULL]
       IN  appState' =
               IF name = <<>> \/ nameExists(appState.categories, name)
               THEN [appState EXCEPT !.submits = @ + 1]
               ELSE [appState EXCEPT
                        !.submits = @ + 1,
                        !.saving = Append(@, [category |-> category,
                                              push |-> TRUE])]
    /\ UNCHANGED <<queue, keyGen, used>>
    /\ CatOnly

\* editCategory(id), up to await db.saveCategory(cat): the prompt cancelled,
\* left empty or left at the old name ends the handler; otherwise the
\* category of the list is renamed in place
editCategory(n, text) ==
    /\ appState.submits < MaxCatSubmits
    /\ n \in 1..Len(appState.categories)
    /\ LET cat == appState.categories[n]
           renamed == [cat EXCEPT !.name = trim(text), !.updatedAt = clock]
       IN  appState' =
               IF text = <<>> \/ trim(text) = cat.name
               THEN [appState EXCEPT !.submits = @ + 1]
               ELSE [appState EXCEPT
                        !.submits = @ + 1,
                        !.categories[n] = renamed,
                        !.saving = Append(@, [category |-> renamed,
                                              push |-> FALSE])]
    /\ UNCHANGED <<queue, keyGen, used>>
    /\ CatOnly

\* db.saveCategory returns: the record is stored and journaled; the add
\* handler pushes its category to the list; sync() is called
saveCategoryReturns ==
    /\ appState.saving # <<>>
    /\ LET call == Head(appState.saving)
       IN  /\ appState' =
                 [appState EXCEPT
                     !.saving = Tail(@),
                     !.db = dbPut(@, call.category),
                     !.categories = IF call.push
                                    THEN Append(@, call.category) ELSE @]
           /\ queue' = [queue EXCEPT !["A"] =
                   addToSyncQueue(@, keyGen["A"] + 1, "category",
                                  call.category, clock)]
           /\ keyGen' = [keyGen EXCEPT !["A"] = @ + 1]
    /\ syncFromHandler("A")
    /\ UNCHANGED <<server, store, pending, isOnline, reloadPending, doneSet,
                   full, clock, mergeVars, recurring, transactions,
                   dbRecurring, dbTransactions, gen, dayIx, utcOffset, fleet,
                   reply>>

\* the list as loadData left it: one category of the server's defaults,
\* whose id is written <<"cat", 1>> and whose name is one key long
CatInit ==
    /\ SysInit({"A"}, {}, 1)
    /\ ~isOnline["A"]
    /\ recurring = <<>> /\ transactions = <<>>
    /\ dbRecurring = <<>> /\ dbTransactions = <<>>
    /\ gen = NoGen /\ dayIx = 1 /\ utcOffset = 0
    /\ fleet = FleetOff /\ reply = NoReply
    /\ LET cat1 == [id |-> <<"cat", 1>>, name |-> <<"G">>, updatedAt |-> 1,
                    deletedAt |-> NULL]
       IN  appState = [categories |-> <<cat1>>, db |-> <<cat1>>,
                       saving |-> <<>>, submits |-> 0, at |-> "settings"]
    /\ mX = <<>> /\ mY = <<>> /\ mZ = <<>>
    /\ mPhase = "categories"
    /\ mRes = [xy |-> NoRes, again |-> NoRes, xyz |-> NoRes, xzy |-> NoRes]

CatNext ==
    \/ Tick
    \/ \E text \in NameTexts : addCategoryFromSettings(text)
    \/ \E n \in 1..MaxCatSubmits + 1 : \E text \in NameTexts :
          editCategory(n, text)
    \/ saveCategoryReturns

SpecCat == CatInit /\ [][CatNext]_vars

\* C33 (category name uniqueness), as stated: no two categories of the list
\* have names that are equal ignoring case.
C33_UniqueNames_Original ==
    \A i, j \in 1..Len(appState.categories) :
        i # j => toLowerCase(appState.categories[i].name)
                    # toLowerCase(appState.categories[j].name)

(***************************************************************************)
(* SpecMessage: generateSyncMessage over the counts of syncStats.  A       *)
(* message is the sequence of its parts; a part `${n} transactions added`  *)
(* is <<n, "transactions added">>, and join(', ') puts ", " between parts. *)
(***************************************************************************)
MaxCount == 2

Counts == 0..MaxCount
SyncStats == [transactions : [added : Counts, updated : Counts,
                              conflicted : Counts],
              categories : [added : Counts, updated : Counts]]

\* `${n} transaction${n > 1 ? 's' : ''} ${verb}`
transactionPart(n, verb) ==
    IF n > 0
    THEN <<(<<n, (IF n > 1 THEN "transactions " ELSE "transaction ") \o verb>>)>>
    ELSE <<>>

\* `${n} categor${n > 1 ? 'ies' : 'y'} ${verb}`
categoryPart(n, verb) ==
    IF n > 0
    THEN <<(<<n, (IF n > 1 THEN "categories " ELSE "category ") \o verb>>)>>
    ELSE <<>>

\* parts.join(', ')
RECURSIVE join(_)
join(parts) ==
    IF Len(parts) <= 1 THEN parts
    ELSE <<Head(parts), ", ">> \o join(Tail(parts))

\* SyncService.generateSyncMessage
generateSyncMessage(syncStats) ==
    LET tx == syncStats.transactions
        cat == syncStats.categories
        total == tx.added + tx.updated + cat.added + cat.updated
    IN  IF total = 0 THEN <<"Cool">>
        ELSE join(transactionPart(tx.added, "added")
                  \o transactionPart(tx.updated, "updated")
                  \o categoryPart(cat.added, "added")
                  \o categoryPart(cat.updated, "updated"))

MessageInit ==
    /\ SysInit({}, {}, 1)
    /\ recurring = <<>> /\ transactions = <<>>
    /\ dbRecurring = <<>> /\ dbTransactions = <<>>
    /\ gen = NoGen /\ dayIx = 1 /\ utcOffset = 0
    /\ fleet = FleetOff /\ reply = NoReply
    /\ \E syncStats \in SyncStats :
          appState = [syncStats |-> syncStats, message |-> <<>>,
                      at |-> "stats"]
    /\ mX = <<>> /\ mY = <<>> /\ mZ = <<>>
    /\ mPhase = "message"
    /\ mRes = [xy |-> NoRes, again |-> NoRes, xyz |-> NoRes, xzy |-> NoRes]

\* message: this.generateSyncMessage()
MessageCall ==
    /\ appState.at = "stats"
    /\ appState' = [appState EXCEPT
                       !.message = generateSyncMessage(appState.syncStats),
                       !.at = "message"]
    /\ UNCHANGED <<sysVars, mergeVars, recurring, transactions, dbRecurring,
                   dbTransactions, gen, dayIx, utcOffset, fleet, reply>>

MessageNext == MessageCall

SpecMessage == MessageInit /\ [][MessageNext]_vars

\* the wording of count n of what ("transaction", "category") and verb, as
\* the claim has it: nothing for zero, singular for one, plural above
Worded(n, one, many, verb) ==
    IF n = 0 THEN <<>>
    ELSE <<(<<n, (IF n = 1 THEN one ELSE many) \o " " \o verb>>)>>

\* C34 (sync message), as stated: 'Everything is up to date' when the four
\* counts are zero, otherwise the non-zero counts in the order transactions
\* added, transactions updated, categories added, categories updated,
\* separated by commas, singular or plural by count.
C34_SyncMessage_Original ==
    appState.at = "message" =>
        LET tx == appState.syncStats.transactions
            cat == appState.syncStats.categories
            listed == Worded(tx.added, "transaction", "transactions", "added")
                   \o Worded(tx.updated, "transaction", "transactions", "updated")
                   \o Worded(cat.added, "category", "categories", "added")
                   \o Worded(cat.updated, "category", "categories", "updated")
        IN  appState.message =
                IF listed = <<>> THEN <<"Everything is up to date">>
                ELSE join(listed)

\* the same without the all-zero case: what the code and the claim agree on
C34_NonZeroMessage ==
    (appState.at = "message" /\ appState.message # <<"Cool">>) =>
        LET tx == appState.syncStats.transactions
            cat == appState.syncStats.categories
        IN  appState.message =
                join(Worded(tx.added, "transaction", "transactions", "added")
                  \o Worded(tx.updated, "transaction", "transactions", "updated")
                  \o Worded(cat.added, "category", "categories", "added")
                  \o Worded(cat.updated, "category", "categories", "updated"))

\* C35 (one merge function): for every baseline and remote collection the
\* merge of the server and the merge of the client return the same records
\* in the same order, whether applied once, again on its own result, or in
\* sequence over three collections.
C35_SameMerge ==
    /\ mPhase # "input" =>
          /\ mRes.xy.server = mergeRecords(mX, mY)
          /\ mRes.xy.client = dbMergeRecords(mX, mY)
          /\ mRes.xy.server = mRes.xy.client
    /\ mRes.again.server = mRes.again.client
    /\ mRes.xyz.server = mRes.xyz.client
    /\ mRes.xzy.server = mRes.xzy.client

\* the merge was applied to a baseline and a remote that hold the same id
\* with the same instant and different content, next to an id only the
\* remote holds
C35_Witness ==
    /\ mPhase = "merged"
    /\ Len(mX) = 1 /\ Len(mY) = 2
    /\ mX[1].id = mY[2].id /\ mX[1].id # mY[1].id
    /\ mX[1].updatedAt = mY[2].updatedAt /\ mX[1].updatedAt \in Instants
    /\ mX[1].data # mY[2].data
    /\ mRes.xy.server = <<mX[1], mY[1]>>
    /\ mRes.xy.client = <<mX[1], mY[1]>>

\* page A, then page B, then page A again have each completed a round whose
\* exchanges were all answered 200, with no local mutation since the first
\* of the three started, and no round is in flight
RoundsABA ==
    /\ Quiesced
    /\ used.rounds["A"] = 2 /\ used.rounds["B"] = 1

\* the versions of an id of a kind that the three replicas hold
VersionsHeld(k, id) ==
    ({ServerHeld(k, id)} \cup {store[c][k][id] : c \in Clients})
        \ {Undefined}

\* no two different versions of one id carry the same updatedAt
DistinctStamps ==
    \A k \in KindSet : \A id \in Ids :
        \A a, b \in VersionsHeld(k, id) : a # b => a.updatedAt # b.updatedAt

MaxOverlap == 2

Calls == 1..MaxOverlap
NotCalled == [pc |-> "idle", i |-> 0, nextDate |-> NoDate, today |-> NoDate]

\* the calls leave the server, the stores of the sync engine and the
\* SyncService alone
OverlapOnly ==
    UNCHANGED <<server, store, pending, serviceVars, seenVars, histVars,
                mergeVars, gen, dayIx, utcOffset, fleet, reply>>

setGen(r, g) == [appState EXCEPT !.gens[r] = g]

\* await this.processRecurringTransactions(): const today = ...
processRecurringTransactions(r) ==
    /\ appState.gens[r].pc = "idle"
    /\ \A q \in Calls : q < r => appState.gens[q].pc # "idle"
    /\ appState' = setGen(r, [pc |-> "rule", i |-> 1, nextDate |-> NoDate,
                              today |-> getTodayInCentral])
    /\ UNCHANGED <<recurring, transactions, dbRecurring, dbTransactions,
                   queue, keyGen>>
    /\ OverlapOnly

\* for (const rec of this.recurring): a deleted rule is passed over, another
\* gets its first candidate date; after the last rule the call returns
forNext(r) ==
    LET g == appState.gens[r]
    IN  /\ g.pc = "rule"
        /\ appState' = setGen(r,
              IF g.i > Len(recurring) THEN [g EXCEPT !.pc = "done"]
              ELSE IF recurring[g.i].deletedAt # NULL
                   THEN [g EXCEPT !.i = @ + 1]
                   ELSE [g EXCEPT !.pc = "loop",
                                  !.nextDate = firstCandidate(recurring[g.i],
                                                              utcOffset)])
        /\ UNCHANGED <<recurring, transactions, dbRecurring, dbTransactions,
                       queue, keyGen>>
        /\ OverlapOnly

\* an iteration of the while loop for a date that has its transaction
whileExists(r) ==
    LET g == appState.gens[r]
    IN  /\ g.pc = "loop"
        /\ dateLeq(g.nextDate, g.today)
        /\ exists(transactions, recurring[g.i], g.nextDate)
        /\ recurring' = iterationEnd(recurring, g, utcOffset).recurring
        /\ appState' = setGen(r, iterationEnd(recurring, g, utcOffset).gen)
        /\ UNCHANGED <<transactions, dbRecurring, dbTransactions, queue,
                       keyGen>>
        /\ OverlapOnly

\* an iteration for a date without transaction, up to the end of
\* await db.saveTransaction(transaction)
whileSave(r) ==
    LET g == appState.gens[r]
        transaction == [id |-> generateUUID("A", keyGen["A"] + 1),
                        recurringId |-> recurring[g.i].id,
                        date |-> g.nextDate, deletedAt |-> NULL]
    IN  /\ g.pc = "loop"
        /\ dateLeq(g.nextDate, g.today)
        /\ ~exists(transactions, recurring[g.i], g.nextDate)
        /\ dbTransactions' = dbPut(dbTransactions, transaction)
        /\ queue' = [queue EXCEPT !["A"] =
               addToSyncQueue(@, keyGen["A"] + 1, "transaction", transaction,
                              clock)]
        /\ keyGen' = [keyGen EXCEPT !["A"] = @ + 1]
        /\ appState' = [appState EXCEPT
                           !.gens[r].pc = "saved",
                           !.saved[r] = transaction]
        /\ UNCHANGED <<recurring, transactions, dbRecurring>>
        /\ OverlapOnly

\* this.transactions.push(transaction) and the end of the iteration
whilePush(r) ==
    LET g == appState.gens[r]
    IN  /\ g.pc = "saved"
        /\ transactions' = Append(transactions, appState.saved[r])
        /\ recurring' = iterationEnd(recurring, g, utcOffset).recurring
        /\ appState' = setGen(r, iterationEnd(recurring, g, utcOffset).gen)
        /\ UNCHANGED <<dbRecurring, dbTransactions, queue, keyGen>>
        /\ OverlapOnly

\* the while loop is over: rec.updatedAt = now; await db.saveRecurring(rec)
forSave(r) ==
    LET g == appState.gens[r]
        rec == [recurring[g.i] EXCEPT !.updatedAt = clock]
    IN  /\ g.pc = "loop"
        /\ ~dateLeq(g.nextDate, g.today)
        /\ recurring' = [recurring EXCEPT ![g.i] = rec]
        /\ dbRecurring' = dbPut(dbRecurring, rec)
        /\ queue' = [queue EXCEPT !["A"] =
               addToSyncQueue(@, keyGen["A"] + 1, "recurring", rec, clock)]
        /\ keyGen' = [keyGen EXCEPT !["A"] = @ + 1]
        /\ appState' = setGen(r, [g EXCEPT !.pc = "rule", !.i = @ + 1])
        /\ UNCHANGED <<transactions, dbTransactions>>
        /\ OverlapOnly

\* the page holds one rule, saved and not yet run
OverlapInit ==
    /\ SysInit({}, {"A"}, 1)
    /\ mX = <<>> /\ mY = <<>> /\ mZ = <<>>
    /\ mPhase = "overlap"
    /\ mRes = [xy |-> NoRes, again |-> NoRes, xyz |-> NoRes, xzy |-> NoRes]
    /\ \E rule \in Rule(RuleIds[1]) : recurring = <<rule>>
    /\ dbRecurring = recurring
    /\ transactions = <<>> /\ dbTransactions = <<>>
    /\ gen = NoGen
    /\ dayIx = 1
    /\ utcOffset = -6
    /\ appState = [gens |-> [r \in Calls |-> NotCalled],
                   saved |-> [r \in Calls |-> Undefined],
                   at |-> "recurring"]
    /\ fleet = FleetOff
    /\ reply = NoReply

OverlapNext ==
    \E r \in Calls :
        \/ processRecurringTransactions(r) \/ forNext(r) \/ whileExists(r)
        \/ whileSave(r) \/ whilePush(r) \/ forSave(r)

SpecOverlap == OverlapInit /\ [][OverlapNext]_vars

\* C37 (overlapping generator runs), as stated: the page never holds two
\* live transactions with the same recurringId and date.
C37_NoDuplicate_Original ==
    \A m, n \in 1..Len(transactions) :
        (/\ m # n
         /\ transactions[m].deletedAt = NULL
         /\ transactions[n].deletedAt = NULL)
            => ~(/\ transactions[m].recurringId = transactions[n].recurringId
                 /\ transactions[m].date = transactions[n].date)

(***************************************************************************)
(* SpecLoad: page A from loadData on.  fetchInitialData fetches the three  *)
(* collections of the server at once and merges them one after the other   *)
(* into the stores (appState.load is its position); the user may save or   *)
(* delete meanwhile; loadApp calls sync() once the data is loaded.         *)
(***************************************************************************)
NotLoaded == [pc |-> "start", k |-> 0, data |-> <<>>, merged |-> <<>>]

\* the steps of fetchInitialData leave everything but the stores alone
LoadOnly ==
    UNCHANGED <<server, queue, keyGen, pending, serviceVars, seenVars,
                histVars, mergeVars, recurring, transactions, dbRecurring,
                dbTransactions, gen, dayIx, utcOffset, fleet, reply>>

\* fetchInitialData: offline, the stores are read and nothing is merged;
\* online, the three GET requests are answered with the server's files
fetchStart(c) ==
    /\ appState.load.pc = "start"
    /\ appState' = [appState EXCEPT !.load =
            IF isOnline[c]
            THEN [pc |-> "resp", k |-> 1, data |-> server, merged |-> <<>>]
            ELSE [NotLoaded EXCEPT !.pc = "done"]]
    /\ UNCHANGED store
    /\ LoadOnly

\* db.merge<Kind>(data): const local = await getAll...; mergeRecords
loadMergeRead(c) ==
    LET ld == appState.load
    IN  /\ ld.pc = "resp"
        /\ appState' = [appState EXCEPT
              !.load.pc = "clear",
              !.load.merged = clientMerge(getAll(store[c][Kinds[ld.k]]),
                                          ld.data[Kinds[ld.k]]).persist]
        /\ UNCHANGED store
        /\ LoadOnly

\* await this.clear(store)
loadMergeClear(c) ==
    LET ld == appState.load
    IN  /\ ld.pc = "clear"
        /\ store' = [store EXCEPT ![c][Kinds[ld.k]] = EmptyStore]
        /\ appState' = [appState EXCEPT !.load.pc = "bulkPut"]
        /\ LoadOnly

\* await this.bulkPut(store, merged); then the next kind, or the return
loadMergeBulkPut(c) ==
    LET ld == appState.load
    IN  /\ ld.pc = "bulkPut"
        /\ store' = [store EXCEPT ![c][Kinds[ld.k]] = bulkPut(@, ld.merged)]
        /\ appState' = [appState EXCEPT !.load =
              IF ld.k < Len(Kinds)
              THEN [ld EXCEPT !.pc = "resp", !.k = @ + 1, !.merged = <<>>]
              ELSE [NotLoaded EXCEPT !.pc = "done"]]
        /\ LoadOnly

\* the page before loadData: its stores are empty, it may be offline
LoadInit ==
    /\ SysInit({"A"}, {}, 1)
    /\ recurring = <<>> /\ transactions = <<>>
    /\ dbRecurring = <<>> /\ dbTransactions = <<>>
    /\ gen = NoGen /\ dayIx = 1 /\ utcOffset = 0
    /\ fleet = FleetOff /\ reply = NoReply
    /\ appState = [load |-> NotLoaded, at |-> "load"]
    /\ mX = <<>> /\ mY = <<>> /\ mZ = <<>>
    /\ mPhase = "load"
    /\ mRes = [xy |-> NoRes, again |-> NoRes, xyz |-> NoRes, xzy |-> NoRes]

LoadNext ==
    \/ Tick
    \/ \E c \in {"A"} :
          \/ \E k \in KindSet : \E r \in SaveRecord(k) : SaveCall(c, k, r)
          \/ \E k \in KindSet : \E id \in IdsOfKind[k] : DeleteCall(c, k, id)
          \/ DeletePut(c)
          \/ JournalAppend(c)
          \/ fetchStart(c) \/ loadMergeRead(c) \/ loadMergeClear(c)
          \/ loadMergeBulkPut(c)
          \/ appState.load.pc = "done" /\ SyncCall(c)
          \/ okRoundStep(c)

SpecLoad == LoadInit /\ [][LoadNext]_vars

\* the step is one of the merge of kind k on page c: in round i, or in
\* fetchInitialData
MergeStepOfRound(c, i, k) ==
    /\ i <= Len(rounds[c]) /\ Len(rounds'[c]) = Len(rounds[c])
    /\ kindOf(rounds[c][i]) = k
    /\ \/ rounds[c][i].pc = "resp" /\ rounds'[c][i].pc = "clear"
       \/ rounds[c][i].pc = "clear" /\ rounds'[c][i].pc = "bulkPut"
       \/ rounds[c][i].pc = "bulkPut" /\ rounds'[c][i].pc # "bulkPut"
MergeStepOfLoad(k) ==
    /\ appState.load.pc \in {"resp", "clear", "bulkPut"}
    /\ appState'.load # appState.load
    /\ Kinds[appState.load.k] = k

\* C38 (a merge is not a local mutation): a step of the merge of one kind,
\* in a sync round or in fetchInitialData, leaves the change journal and its
\* key generator as they were and leaves the stores of the other two kinds
\* unchanged; the store of its own kind changes in the clear and in the
\* bulkPut only.
C38_MergeFrame ==
    [][\A k \in KindSet :
          ((\E i \in Slots : MergeStepOfRound("A", i, k)) \/ MergeStepOfLoad(k))
             => /\ queue' = queue
                /\ keyGen' = keyGen
                /\ \A other \in KindSet \ {k} :
                      store'["A"][other] = store["A"][other]]_vars

\* fetchInitialData has merged the server's categories into the empty store
\* of the page, a round has merged the transactions, and the journal still
\* holds the entry of the one local mutation
C38_Witness ==
    /\ appState.load.pc = "done"
    /\ store["A"]["categories"]["cat-1"] # Undefined
    /\ Len(queue["A"]) = 1
    /\ Len(rounds["A"]) = 1
    /\ rounds["A"][1].wrote = <<1>>

(***************************************************************************)
(* SpecRule: the two devices and the server of SpecFleet, with the rule    *)
(* deleted on one device (handleDeleteRecurring) instead of a transaction. *)
(***************************************************************************)
\* handleDeleteRecurring() on device c: db.deleteRecurring(id) stamps the
\* rule of the store with deletedAt and updatedAt and puts it
DeleteRule(c) ==
    /\ fleet.deletes < MaxDeletes
    /\ \E n \in 1..Len(fleet.db[c].recurring) :
          /\ isLive(fleet.db[c].recurring[n])
          /\ fleet' = [fleet EXCEPT
                          !.db[c].recurring[n].deletedAt = clock,
                          !.db[c].recurring[n].updatedAt = clock,
                          !.deletes = @ + 1]
    /\ UNCHANGED <<server, isOnline>>
    /\ FleetOnly

RuleNext ==
    \/ Tick
    \/ \E c \in Clients :
          Open(c) \/ DeleteRule(c) \/ FleetSync(c) \/ FleetNetwork(c)

SpecRule == FleetInit /\ [][RuleNext]_vars

\* the server and both devices hold the same rules: a sync round of either
\* device would find nothing to change, so each has synced
RulesAgree ==
    \A c \in Clients : fleet.db[c].recurring = server.recurring

\* C39 (a deleted rule stays deleted), as stated: once the rule was deleted
\* on a device and the server and the devices have synced to the same
\* rules, the rule is a tombstone on all of them.
C39_RuleStaysDeleted_Original ==
    (fleet.deletes = 1 /\ RulesAgree) =>
        \A n \in 1..Len(server.recurring) :
            server.recurring[n].deletedAt # NULL

\* the latest round of page c has ended with a {success: false} result and
\* no round has started since
LastRoundFailed(c) ==
    /\ results[c].count > 0
    /\ ~results[c].success
    /\ rounds[c] = <<>>

\* C40 ('synced' means the last round succeeded), as stated: while the
\* latest round of a page is one that failed, neither getStatus() nor the
\* last status notification says 'synced'.
C40_SyncedMeansSuccess_Original ==
    \A c \in Clients :
        LastRoundFailed(c) =>
            /\ getStatus(isOnline[c], isSyncing[c]) # "synced"
            /\ notified[c].status # "synced"

====
